---- MODULE Spec2Model ----
(***************************************************************************)
(* TTML2PGS: the timeline slicer / compositor (core/bdn_composer.py) and   *)
(* the PGS bitstream encoder (core/pgs_encoder.py), as state machines.     *)
(*                                                                         *)
(* Times are integer milliseconds.  A value the code holds as a float      *)
(* product (conformed times) is carried as an exact fraction <<n, d>>.     *)
(* Characters of a timecode string are their ASCII codes.                  *)
(***************************************************************************)
EXTENDS Integers, Sequences, FiniteSets, TLC

VARIABLES
    \* ---- BdnComposer ----
    cues,               \* cues_metadata: the manifest list given to compose
    images,             \* input_dir: filename -> layer content
    timing_offset_ms,   \* project.timing_offset_ms
    target_resolution,  \* BdnComposer.target_resolution (canvas)
    fps_pair,           \* <<src_fps_num, src_fps_den, tgt_fps_num, tgt_fps_den>>
    tie_up,             \* which neighbour this run's float products round a tie to
    cancel_event,       \* cancel_event.is_set()
    cpc,                \* position of compose: "start", "loop", "done", "returned", "raised"
    i,                  \* loop index over sorted_points (1-based)
    sorted_points,      \* sorted(list(points))
    seq_num,            \* slice counter
    bdn_events,         \* events collected for the interchange document
    slices,             \* every interval the loop found active cues for
    slice_files,        \* slices_dir: the slice bitmaps written so far
    bdn_xml,            \* the interchange document once written
    \* ---- _create_composite_image on one content box ----
    crop_in,            \* [res, bbox, shape]: canvas size, canvas.getbbox(), content
    crop_out,           \* the returned (x, y, w, h), <<>> before the call
    crop_saved,         \* the four corner pixels of the saved bitmap
    \* ---- _ms_to_tc / _tc_to_pts ----
    tc_in,              \* [fps, ms1, ms2]: a frame-rate pair and two times
    tc_out,             \* [tc1, tc2, pts1]: the timecodes and the PTS of tc1
    \* ---- _rle_compress ----
    rle_in,             \* [pixels, width, height]: an indexed bitmap
    rle_out,            \* the bytes returned, <<>> before the call
    \* ---- _quantize_image ----
    q_in,               \* [rows, width, height, order]: an RGBA bitmap
    q_out,              \* the result, <<>> before the call
    \* ---- PgsEncoder.export under PipelineWorker.run ----
    bdn_doc,            \* the interchange document at bdn_xml_path
    slice_dir,          \* the bitmaps beside it: filename -> [rows, width, height]
    cancel_requested,   \* PipelineWorker.cancel_requested
    cancelled_during,   \* the event being written when cancel() was called
    xpc,                \* position of the worker / of export
    events,             \* events, as parsed
    video_format,       \* video_format, as parsed
    fps_nd,             \* <<fps_num, fps_den>>
    idx,                \* loop index over events (1-based)
    sequence_index,     \* PgsEncoder.sequence_index
    cur,                \* the locals of the iteration once the bitmap is loaded
    out_file,           \* the segments written so far, in order
    \* ---- the segment builders ----
    seg_in,             \* [kind, pts, dim, num, size, pat]: one call
    seg_out,            \* the packets returned, <<>> before the call
    \* ---- the frame-rate classification of export ----
    fps_in,             \* the FrameRate text of the document, as thousandths
    fps_out             \* <<fps_num, fps_den>>, <<>> before

composeVars == <<cues, images, timing_offset_ms, target_resolution, fps_pair,
                 tie_up, cancel_event, cpc, i, sorted_points, seq_num, bdn_events,
                 slices, slice_files, bdn_xml>>

cropVars == <<crop_in, crop_out, crop_saved>>

tcVars == <<tc_in, tc_out>>

rleVars == <<rle_in, rle_out>>

quantVars == <<q_in, q_out>>

exportVars == <<bdn_doc, slice_dir, cancel_requested, cancelled_during, xpc, events,
                video_format, fps_nd, idx, sequence_index, cur, out_file>>

segVars == <<seg_in, seg_out>>

fpsVars == <<fps_in, fps_out>>

vars == <<composeVars, cropVars, tcVars, rleVars, quantVars, exportVars, segVars, fpsVars>>

\* what each component leaves alone
notCompose == <<cropVars, tcVars, rleVars, quantVars, exportVars, segVars, fpsVars>>

notCrop == <<composeVars, tcVars, rleVars, quantVars, exportVars, segVars, fpsVars>>

notTc == <<composeVars, cropVars, rleVars, quantVars, exportVars, segVars, fpsVars>>

notRle == <<composeVars, cropVars, tcVars, quantVars, exportVars, segVars, fpsVars>>

notSeg == <<composeVars, cropVars, tcVars, rleVars, quantVars, exportVars, fpsVars>>

notFps == <<composeVars, cropVars, tcVars, rleVars, quantVars, exportVars, segVars>>

notQuant == <<composeVars, cropVars, tcVars, rleVars, exportVars, segVars, fpsVars>>

notExport == <<composeVars, cropVars, tcVars, rleVars, quantVars, segVars, fpsVars>>

(***************************************************************************)
(* Generic helpers                                                         *)
(***************************************************************************)
Range(s) == {s[k] : k \in DOMAIN s}

Min(a, b) == IF a <= b THEN a ELSE b

Max(a, b) == IF a >= b THEN a ELSE b

SetMin(S) == CHOOSE x \in S : \A y \in S : x <= y

\* sorted(list(S)) for a set of integers
RECURSIVE SortedSeq(_)
SortedSeq(S) ==
    IF S = {} THEN <<>>
    ELSE LET m == SetMin(S) IN <<m>> \o SortedSeq(S \ {m})

(***************************************************************************)
(* Timecode conversion: BdnComposer._ms_to_tc and PgsEncoder._tc_to_pts    *)
(***************************************************************************)
Ch0 == 48       \* ord('0')

ChColon == 58   \* ord(':')

ChMinus == 45   \* ord('-')

\* Python round(): n/d to the nearest integer, ties to the even one (d > 0)
PyRound(n, d) ==
    LET q == n \div d
        r == n % d
    IN  IF 2 * r < d THEN q
        ELSE IF 2 * r > d THEN q + 1
        ELSE IF q % 2 = 0 THEN q ELSE q + 1

\* the decimal digits of n >= 0, most significant first
RECURSIVE Digits(_)
Digits(n) == IF n < 10 THEN <<Ch0 + n>> ELSE Digits(n \div 10) \o <<Ch0 + (n % 10)>>

\* Python format spec :02d : zero-padded to width two, the sign counts
Fmt02d(n) ==
    IF n < 0 THEN <<ChMinus>> \o Digits(-n)
    ELSE IF n < 10 THEN <<Ch0>> \o Digits(n)
    ELSE Digits(n)

\* int(round(x)) for x = n/d: fps_base = int(round(fps_num / fps_den))
FpsBase(fps_num, fps_den) == PyRound(fps_num, fps_den)

RECURSIVE Gcd(_, _)
Gcd(a, b) == IF b = 0 THEN a ELSE Gcd(b, a % b)

\* the fraction (a/b) * (c/d) in lowest terms, reduced before multiplying so
\* that the products stay inside the checker's integers
FracMul(a, b, c, d) ==
    LET g1 == Gcd(a, d)
        g2 == Gcd(c, b)
        n  == (a \div g1) * (c \div g2)
        m  == (b \div g2) * (d \div g1)
        g  == Gcd(n, m)
    IN  <<n \div g, m \div g>>

\* round(x) of a float product x whose exact value is n/d (d > 0): off a tie the
\* nearest integer; at an exact tie the product's last bit decides, so either
\* neighbour (2180 ms at 25/1 gives 55, 2300 ms gives 57)
RoundProduct(n, d) ==
    IF 2 * (n % d) = d THEN {n \div d, (n \div d) + 1} ELSE {PyRound(n, d)}

\* the roundings of x * p / q, computed as (x div q) * p + round((x mod q) * p / q)
ScaleRound(x, p, q) ==
    {(x \div q) * p + v : v \in RoundProduct((x % q) * p, q)}

\* floor(x * p / q), computed as (x div q) * p + floor((x mod q) * p / q)
ScaleFloor(x, p, q) == (x \div q) * p + (((x % q) * p) \div q)

\* total_frames = int(round(ms/1000.0 * (fps_num/fps_den))): the values the float
\* arithmetic can give.  ms is <<x, rn, rd>>, the time x * rn / rd: an integer
\* millisecond count x times the ratio the caller multiplied it by (1/1 if none)
TotalFrames(ms, fps_num, fps_den) ==
    LET k == FracMul(ms[2], ms[3], fps_num, 1000 * fps_den)
    IN  ScaleRound(ms[1], k[1], k[2])

\* the mutant of TcFields that divides the seconds by frames_per_min
TcFieldsSecondsByMinute(total_frames, fps_base) ==
    LET frames_per_sec == fps_base
        frames_per_min == fps_base * 60
        frames_per_hr  == fps_base * 3600
        h    == total_frames \div frames_per_hr
        rem1 == total_frames % frames_per_hr
        m    == rem1 \div frames_per_min
        rem2 == rem1 % frames_per_min
        s    == rem2 \div frames_per_min
        f    == rem2 % frames_per_sec
    IN  <<h, m, s, f>>

\* h, m, s, f of _ms_to_tc (Python // and % floor toward minus infinity)
TcFields(total_frames, fps_base) ==
    LET frames_per_sec == fps_base
        frames_per_min == fps_base * 60
        frames_per_hr  == fps_base * 3600
        h    == total_frames \div frames_per_hr
        rem1 == total_frames % frames_per_hr
        m    == rem1 \div frames_per_min
        rem2 == rem1 % frames_per_min
        s    == rem2 \div frames_per_sec
        f    == rem2 % frames_per_sec
    IN  <<h, m, s, f>>

FormatTc(hmsf) ==
    Fmt02d(hmsf[1]) \o <<ChColon>> \o Fmt02d(hmsf[2]) \o <<ChColon>>
        \o Fmt02d(hmsf[3]) \o <<ChColon>> \o Fmt02d(hmsf[4])

\* _ms_to_tc(ms, fps_num, fps_den): the strings HH:MM:SS:FF it can return
\* (one, or two at a rounding tie)
MsToTc(ms, fps_num, fps_den) ==
    {FormatTc(TcFields(tf, FpsBase(fps_num, fps_den))) :
        tf \in TotalFrames(ms, fps_num, fps_den)}

\* tc.split(':') : the fields between colons
RECURSIVE SplitColon(_)
SplitColon(str) ==
    IF \A k \in DOMAIN str : str[k] # ChColon THEN <<str>>
    ELSE LET p == SetMin({k \in DOMAIN str : str[k] = ChColon})
         IN  <<SubSeq(str, 1, p - 1)>> \o SplitColon(SubSeq(str, p + 1, Len(str)))

IsDigit(c) == c >= Ch0 /\ c <= Ch0 + 9

RECURSIVE DigitsValue(_)
DigitsValue(ds) ==
    IF ds = <<>> THEN 0
    ELSE 10 * DigitsValue(SubSeq(ds, 1, Len(ds) - 1)) + (ds[Len(ds)] - Ch0)

\* int(field) succeeds on an optional minus sign followed by digits
IsIntText(fld) ==
    LET body == IF fld # <<>> /\ fld[1] = ChMinus THEN Tail(fld) ELSE fld
    IN  body # <<>> /\ \A k \in DOMAIN body : IsDigit(body[k])

IntOf(fld) ==
    IF fld[1] = ChMinus THEN 0 - DigitsValue(Tail(fld)) ELSE DigitsValue(fld)

\* the mutant of TcFrames that counts a minute as 60 frames
TcFramesMinuteWithoutBase(hh, mm, ss, ff, base_fps) ==
    (hh * 3600 * base_fps) + (mm * 60) + (ss * base_fps) + ff

\* total_frames as _tc_to_pts counts them from hh, mm, ss, ff
TcFrames(hh, mm, ss, ff, base_fps) ==
    (hh * 3600 * base_fps) + (mm * 60 * base_fps) + (ss * base_fps) + ff

\* the mutant of TcToPts that takes the seconds for the frames and the frames
\* for the seconds
TcToPtsSecondsFramesSwapped(tc, fps_num, fps_den) ==
    LET flds == SplitColon(tc)
    IN  IF Len(flds) # 4 \/ \E k \in DOMAIN flds : ~IsIntText(flds[k]) THEN 0
        ELSE LET base_fps == FpsBase(fps_num, fps_den)
                 total_frames == TcFrames(IntOf(flds[1]), IntOf(flds[2]),
                                          IntOf(flds[4]), IntOf(flds[3]), base_fps)
                 k == FracMul(90000, 1, fps_den, fps_num)
             IN  ScaleFloor(total_frames, k[1], k[2])

\* the mutant of TcToPts whose base is fps_num // fps_den
TcToPtsBaseFloored(tc, fps_num, fps_den) ==
    LET flds == SplitColon(tc)
    IN  IF Len(flds) # 4 \/ \E k \in DOMAIN flds : ~IsIntText(flds[k]) THEN 0
        ELSE LET base_fps == fps_num \div fps_den
                 total_frames == TcFrames(IntOf(flds[1]), IntOf(flds[2]),
                                          IntOf(flds[3]), IntOf(flds[4]), base_fps)
                 k == FracMul(90000, 1, fps_den, fps_num)
             IN  ScaleFloor(total_frames, k[1], k[2])

\* _tc_to_pts(tc, fps_num, fps_den): 0 when the unpacking raises ValueError
TcToPts(tc, fps_num, fps_den) ==
    LET flds == SplitColon(tc)
    IN  IF Len(flds) # 4 \/ \E k \in DOMAIN flds : ~IsIntText(flds[k]) THEN 0
        ELSE LET base_fps == FpsBase(fps_num, fps_den)
                 total_frames == TcFrames(IntOf(flds[1]), IntOf(flds[2]),
                                          IntOf(flds[3]), IntOf(flds[4]), base_fps)
                 k == FracMul(90000, 1, fps_den, fps_num)
             IN  \* pts = (total_frames * 90000 * fps_den) // fps_num
                 ScaleFloor(total_frames, k[1], k[2])

(***************************************************************************)
(* BdnComposer: slicing, compositing, cropping                             *)
(*                                                                         *)
(* A cue bitmap is known by the bounding box <<left, upper, right, lower>> *)
(* of its pixels with non-zero alpha (right and lower exclusive, as        *)
(* Image.getbbox gives it), <<>> for a bitmap with no such pixel, and      *)
(* Missing for a file that does not exist.                                 *)
(***************************************************************************)
Missing == "missing"

NoBox == <<>>

\* the smallest box holding both: the bbox after one more alpha_composite
Hull(a, b) ==
    IF a = NoBox THEN b
    ELSE IF b = NoBox THEN a
    ELSE <<Min(a[1], b[1]), Min(a[2], b[2]), Max(a[3], b[3]), Max(a[4], b[4])>>

\* canvas.getbbox() after the loop over the slice's cues: a layer whose file
\* does not exist is skipped
RECURSIVE CanvasBBox(_, _)
CanvasBBox(cs, imgs) ==
    IF cs = <<>> THEN NoBox
    ELSE LET c     == cs[Len(cs)]
             below == CanvasBBox(SubSeq(cs, 1, Len(cs) - 1), imgs)
         IN  IF imgs[c.filename] = Missing THEN below
             ELSE Hull(below, imgs[c.filename])

\* the even alignment and the clamp of _create_composite_image:
\* (left, upper, w, h) for a bbox that is not None
AlignBox(bbox, canvas_w, canvas_h) ==
    LET left0  == IF bbox[1] % 2 # 0 THEN bbox[1] - 1 ELSE bbox[1]
        upper0 == IF bbox[2] % 2 # 0 THEN bbox[2] - 1 ELSE bbox[2]
        right0 == IF bbox[3] % 2 # 0 THEN bbox[3] + 1 ELSE bbox[3]
        lower0 == IF bbox[4] % 2 # 0 THEN bbox[4] + 1 ELSE bbox[4]
        left   == Max(0, left0)
        upper  == Max(0, upper0)
        right  == Min(canvas_w, right0)
        lower  == Min(canvas_h, lower0)
    IN  <<left, upper, right - left, lower - upper>>

\* the mutant of CreateCompositeImage that crops nothing and always saves
CreateCompositeImageWholeCanvas(cs, imgs, res) == <<0, 0, res[1], res[2]>>

\* _create_composite_image: the returned (x, y, w, h); (0, 0, 0, 0) without content
CreateCompositeImage(cs, imgs, res) ==
    LET bbox == CanvasBBox(cs, imgs)
    IN  IF bbox # NoBox THEN AlignBox(bbox, res[1], res[2]) ELSE <<0, 0, 0, 0>>

\* the mutant of IsActive that tests closed-interval overlap with the slice
IsActiveTouching(c_start, c_end, t_start, t_end) ==
    c_start <= t_end /\ t_start <= c_end

\* the mutant of IsActive that forgets the cue's end
IsActiveNoEnd(c_start, c_end, t_start, t_end) ==
    2 * c_start <= t_start + t_end

\* c_start <= mid_point < c_end with mid_point = (t_start + t_end) / 2, doubled
\* so that the half stays an integer
IsActive(c_start, c_end, t_start, t_end) ==
    2 * c_start <= t_start + t_end /\ t_start + t_end < 2 * c_end

\* the active_cues list: the cues of the manifest, in manifest order, that pass
RECURSIVE ActiveCues(_, _, _, _)
ActiveCues(cs, off, t_start, t_end) ==
    IF cs = <<>> THEN <<>>
    ELSE LET c    == cs[Len(cs)]
             rest == ActiveCues(SubSeq(cs, 1, Len(cs) - 1), off, t_start, t_end)
         IN  IF IsActive(c.start_ms + off, c.end_ms + off, t_start, t_end)
             THEN Append(rest, c) ELSE rest

\* list.sort(key=id): stable, ascending
RECURSIVE SortById(_)
SortById(cs) ==
    IF cs = <<>> THEN <<>>
    ELSE LET m == SetMin({cs[k].id : k \in DOMAIN cs})
             p == SetMin({k \in DOMAIN cs : cs[k].id = m})
         IN  <<cs[p]>> \o SortById(SubSeq(cs, 1, p - 1) \o SubSeq(cs, p + 1, Len(cs)))

\* the mutant of Points that takes the ends only
PointsEndsOnly(cs, off) == {cs[k].end_ms + off : k \in DOMAIN cs}

\* points: every start and end, offset applied
Points(cs, off) ==
    {cs[k].start_ms + off : k \in DOMAIN cs} \cup {cs[k].end_ms + off : k \in DOMAIN cs}

\* the element of a rounding result the run's float arithmetic gives
PickTie(S, up) == IF up THEN CHOOSE x \in S : \A y \in S : y <= x ELSE SetMin(S)

\* rate_ratio = src_fps_float / tgt_fps_float, as a fraction in lowest terms
RateRatio(fp) == FracMul(fp[1], fp[2], fp[4], fp[3])

\* the in/out timecode of a slice boundary t (steps 4 of compose)
SliceTc(t, fp, up) ==
    LET rr == RateRatio(fp)
        tf == PickTie(TotalFrames(<<t, rr[1], rr[2]>>, fp[3], fp[4]), up)
    IN  FormatTc(TcFields(tf, FpsBase(fp[3], fp[4])))

\* slice_{seq_num:05d}.png, known by its number
SliceFilename(n) == n

\* fps_str: the target rate printed with three decimals, in thousandths
FpsThousandths(fp) == PyRound(fp[3] * 1000, fp[4])

(***************************************************************************)
(* BdnComposer.compose as a state machine                                  *)
(***************************************************************************)
MaxCues == 2

\* (start_ms, end_ms) of a cue, in milliseconds: intervals of which two can lie
\* apart, abut, overlap or be nested with a common start or end, one of zero
\* length, one inverted, and one of 10 ms, shorter than a frame at every rate
CueIntervals ==
    {<<0, 500>>, <<0, 1000>>, <<500, 1500>>, <<1000, 1500>>}
    \cup {<<500, 500>>, <<1000, 500>>, <<1000, 1010>>}

Canvas == <<8, 6>>

\* BdnComposer.__init__ without target_resolution: the attribute is None
NoResolution == <<>>

\* project.width, project.height: the native size of the subtitle project
ProjectSize == <<6, 4>>

\* _create_composite_image, lines 155-158: the canvas of every slice
CanvasSize(res) == IF res = NoResolution THEN ProjectSize ELSE res

\* what a cue's file can hold on that canvas
LayerKinds == {Missing, NoBox, <<1, 1, 4, 3>>}

Offsets == {0, -500}

\* the composer's constructions, <<target_resolution, timing_offset_ms,
\* <<src_fps_num, src_fps_den, tgt_fps_num, tgt_fps_den>>, tie_up>>: the project's own rate at every offset (no time of the manifest
\* falls on a half frame at 24000/1001, so the tie is never consulted), the
\* conform from 25 to 24 with the half frames going either way, and no target
\* resolution
Constructions ==
    {<<Canvas, off, <<24000, 1001, 24000, 1001>>, FALSE>> : off \in Offsets}
    \cup {<<Canvas, 0, <<25, 1, 24, 1>>, tie>> : tie \in BOOLEAN}
    \cup {<<NoResolution, 0, <<24000, 1001, 24000, 1001>>, FALSE>>}

\* ImageBatcher.run writes the manifest: id is the cue's start_ms, the file is
\* numbered by the cue's position
ManifestCue(k, iv) == [id |-> iv[1], filename |-> k, start_ms |-> iv[1], end_ms |-> iv[2]]

Manifests ==
    UNION {{[k \in 1..n |-> ManifestCue(k, ivs[k])] : ivs \in [1..n -> CueIntervals]} :
              n \in 1..MaxCues}

ComposeInit ==
    /\ cues \in Manifests
    /\ images \in [1..Len(cues) -> LayerKinds]
    /\ \E con \in Constructions :
          /\ target_resolution = con[1]
          /\ timing_offset_ms = con[2]
          /\ fps_pair = con[3]
          /\ tie_up = con[4]
    /\ cancel_event = FALSE
    /\ cpc = "start"
    /\ i = 1
    /\ sorted_points = <<>>
    /\ seq_num = 0
    /\ bdn_events = <<>>
    /\ slices = <<>>
    /\ slice_files = {}
    /\ bdn_xml = <<>>

\* compose, lines 59-72: the boundaries, sorted
ComposeStart ==
    /\ cpc = "start"
    /\ sorted_points' = SortedSeq(Points(cues, timing_offset_ms))
    /\ bdn_events' = <<>>
    /\ seq_num' = 0
    /\ i' = 1
    /\ cpc' = "loop"
    /\ UNCHANGED <<cues, images, timing_offset_ms, target_resolution, fps_pair, tie_up,
                   cancel_event, slices, slice_files, bdn_xml, notCompose>>

\* one iteration of the loop over adjacent boundaries, lines 75-143
ComposeIter ==
    /\ cpc = "loop"
    /\ i <= Len(sorted_points) - 1
    /\ UNCHANGED <<cues, images, timing_offset_ms, target_resolution, fps_pair, tie_up,
                   cancel_event, sorted_points, bdn_xml, notCompose>>
    /\ IF cancel_event
       THEN /\ cpc' = "returned"
            /\ UNCHANGED <<i, seq_num, bdn_events, slices, slice_files>>
       ELSE LET t_start  == sorted_points[i]
                t_end    == sorted_points[i + 1]
                duration == t_end - t_start
                active   == ActiveCues(cues, timing_offset_ms, t_start, t_end)
                sorted   == SortById(active)
                box      == CreateCompositeImage(sorted, images,
                                                 CanvasSize(target_resolution))
                name     == SliceFilename(seq_num + 1)
            IN  /\ cpc' = "loop"
                /\ i' = i + 1
                /\ IF duration <= 0 \/ active = <<>>
                   THEN UNCHANGED <<seq_num, bdn_events, slices, slice_files>>
                   ELSE /\ seq_num' = seq_num + 1
                        /\ slices' = Append(slices, [t_start |-> t_start, t_end |-> t_end,
                                                     active |-> sorted])
                        /\ IF box[3] = 0 \/ box[4] = 0
                           THEN UNCHANGED <<bdn_events, slice_files>>
                           ELSE /\ slice_files' = slice_files \cup {name}
                                /\ bdn_events' = Append(bdn_events,
                                      [InTC |-> SliceTc(t_start, fps_pair, tie_up),
                                       OutTC |-> SliceTc(t_end, fps_pair, tie_up),
                                       Width |-> box[3], Height |-> box[4],
                                       X |-> box[1], Y |-> box[2],
                                       Filename |-> name])

\* _write_bdn_xml after the loop, lines 145-147 and 262-318: line 270 indexes
\* target_resolution, a TypeError when it is None, before anything is written
ComposeWriteXml ==
    /\ cpc = "loop"
    /\ i > Len(sorted_points) - 1
    /\ IF target_resolution = NoResolution
       THEN /\ cpc' = "raised"
            /\ UNCHANGED bdn_xml
       ELSE /\ bdn_xml' = <<[Resolution |-> target_resolution,
                             FrameRate  |-> FpsThousandths(fps_pair),
                             Events     |-> bdn_events]>>
            /\ cpc' = "done"
    /\ UNCHANGED <<cues, images, timing_offset_ms, target_resolution, fps_pair, tie_up,
                   cancel_event, i, sorted_points, seq_num, bdn_events, slices,
                   slice_files, notCompose>>

\* PipelineWorker.cancel while compose runs: the shim's is_set() turns true
ComposeCancel ==
    /\ cpc \in {"start", "loop"}
    /\ ~cancel_event
    /\ cancel_event' = TRUE
    /\ UNCHANGED <<cues, images, timing_offset_ms, target_resolution, fps_pair, tie_up,
                   cpc, i, sorted_points, seq_num, bdn_events, slices, slice_files,
                   bdn_xml, notCompose>>

ComposeNext == ComposeStart \/ ComposeIter \/ ComposeWriteXml \/ ComposeCancel

ComposeIdle ==
    /\ cues = <<>>
    /\ images = <<>>
    /\ timing_offset_ms = 0
    /\ target_resolution = Canvas
    /\ fps_pair = <<24, 1, 24, 1>>
    /\ tie_up = FALSE
    /\ cancel_event = FALSE
    /\ cpc = "idle"
    /\ i = 1
    /\ sorted_points = <<>>
    /\ seq_num = 0
    /\ bdn_events = <<>>
    /\ slices = <<>>
    /\ slice_files = {}
    /\ bdn_xml = <<>>

(***************************************************************************)
(* _create_composite_image applied to one content box                      *)
(***************************************************************************)
MaxCanvas == 5

\* the boxes canvas.getbbox() can return on a w x h canvas
BoxesIn(w, h) ==
    {<<l, u, r, b>> \in (0..w) \X (0..h) \X (0..w) \X (0..h) : l < r /\ u < b}

\* how the visible pixels lie in the content box: all of it, or only the two
\* ends of one of its diagonals
Shapes == {"full", "diag", "anti"}

Opaque == <<255, 255, 255, 255>>

\* the canvas pixel at (x, y) after the layer was composited: visible inside the
\* content box where the shape has a pixel, (0, 0, 0, 0) elsewhere
CanvasPixel(bbox, shape, x, y) ==
    LET l == bbox[1]
        u == bbox[2]
        r == bbox[3] - 1
        b == bbox[4] - 1
        on == CASE shape = "full" -> l <= x /\ x <= r /\ u <= y /\ y <= b
                [] shape = "diag" -> <<x, y>> \in {<<l, u>>, <<r, b>>}
                [] shape = "anti" -> <<x, y>> \in {<<r, u>>, <<l, b>>}
    IN  IF on THEN Opaque ELSE <<0, 0, 0, 0>>

\* guard = (0, 0, 0, 0)
GuardColour == <<0, 0, 0, 0>>

\* if pixels[x, y][3] == 0: pixels[x, y] = guard
Guarded(pixel) == IF pixel[4] = 0 THEN GuardColour ELSE pixel

\* the four corner pixels (top-left, top-right, bottom-left, bottom-right) of the
\* bitmap that cropped.save writes for the aligned box
SavedCorners(bbox, shape, box) ==
    LET x0 == box[1]
        y0 == box[2]
        x1 == box[1] + box[3] - 1
        y1 == box[2] + box[4] - 1
    IN  <<Guarded(CanvasPixel(bbox, shape, x0, y0)),
          Guarded(CanvasPixel(bbox, shape, x1, y0)),
          Guarded(CanvasPixel(bbox, shape, x0, y1)),
          Guarded(CanvasPixel(bbox, shape, x1, y1))>>

CropInit ==
    /\ \E w \in 1..MaxCanvas, h \in 1..MaxCanvas :
           crop_in \in {[res |-> <<w, h>>, bbox |-> bx, shape |-> sh] :
                            bx \in BoxesIn(w, h), sh \in Shapes}
    /\ crop_out = <<>>
    /\ crop_saved = <<>>

CropIdle == crop_in = <<>> /\ crop_out = <<>> /\ crop_saved = <<>>

\* the call: one cue whose bitmap has exactly this content box
CropApply ==
    /\ crop_in # <<>>
    /\ crop_out = <<>>
    /\ crop_out' = CreateCompositeImage(<<[filename |-> 1]>>, <<crop_in.bbox>>,
                                        crop_in.res)
    /\ crop_saved' = SavedCorners(crop_in.bbox, crop_in.shape, crop_out')
    /\ UNCHANGED <<crop_in, notCrop>>

(***************************************************************************)
(* _ms_to_tc and _tc_to_pts applied to two times                           *)
(***************************************************************************)
\* the rates the composer can target, and a high one
LegalRates == {<<24000, 1001>>, <<24, 1>>, <<25, 1>>, <<30000, 1001>>, <<30, 1>>,
               <<50, 1>>, <<60000, 1001>>, <<60, 1>>}

Rates == LegalRates \cup {<<120, 1>>}

\* every millisecond up to here is tried, and the times of MsSpecial
MaxMsDense == 1100

MsSpecial == {-7200000, -3600001, -1, 1001, 2180, 2300, 59999, 60000, 3599999,
              3600000, 21599958, 359999000, 359999999}

MsDeltas == {1, 19, 42, 1000, 3600000}

\* beyond this time the 90 kHz clock value leaves the checker's integers
MaxPtsMs == 23000000

TcInit ==
    /\ tc_in \in {[fps |-> r, ms1 |-> m, ms2 |-> m + d] :
                     r \in Rates, m \in (0..MaxMsDense) \cup MsSpecial, d \in MsDeltas}
    /\ tc_out = <<>>

TcIdle == tc_in = <<>> /\ tc_out = <<>>

\* _ms_to_tc on both times
TcFormat ==
    /\ tc_in # <<>>
    /\ tc_out = <<>>
    /\ \E t1 \in MsToTc(<<tc_in.ms1, 1, 1>>, tc_in.fps[1], tc_in.fps[2]),
          t2 \in MsToTc(<<tc_in.ms2, 1, 1>>, tc_in.fps[1], tc_in.fps[2]) :
           tc_out' = [tc1 |-> t1, tc2 |-> t2, pts1 |-> <<>>]
    /\ UNCHANGED <<tc_in, notTc>>

\* _tc_to_pts on the first timecode
TcParse ==
    /\ tc_out # <<>>
    /\ tc_out.pts1 = <<>>
    /\ tc_in.ms1 <= MaxPtsMs
    /\ tc_out' = [tc_out EXCEPT !.pts1 = <<TcToPts(tc_out.tc1, tc_in.fps[1], tc_in.fps[2])>>]
    /\ UNCHANGED <<tc_in, notTc>>

(***************************************************************************)
(* PgsEncoder._rle_compress                                                *)
(*                                                                         *)
(* A scanline is held as its runs: a sequence of <<val, n>>, n >= 1 pixels *)
(* of palette index val, neighbouring runs of different val, so that lines *)
(* wider than the longest run the format can code stay small.  pixels is   *)
(* the sequence of the bitmap's scanlines.                                 *)
(***************************************************************************)
\* a line with n more pixels of index val at its end (runs kept maximal)
AddRun(line, val, n) ==
    IF n = 0 THEN line
    ELSE IF line # <<>> /\ line[Len(line)][1] = val
    THEN [line EXCEPT ![Len(line)] = <<val, line[Len(line)][2] + n>>]
    ELSE Append(line, <<val, n>>)

\* the number of pixels of a line (summed by halves)
LineWidth(line) ==
    LET RECURSIVE Sum(_, _)
        Sum(lo, hi) == IF lo > hi THEN 0
                       ELSE IF lo = hi THEN line[lo][2]
                       ELSE Sum(lo, (lo + hi) \div 2) + Sum((lo + hi) \div 2 + 1, hi)
    IN  Sum(1, Len(line))

\* two pieces of a line put together, the runs that meet joined when equal
JoinLines(a, b) ==
    IF a = <<>> THEN b
    ELSE IF b = <<>> THEN a
    ELSE AddRun(a, b[1][1], b[1][2]) \o SubSeq(b, 2, Len(b))

\* the run of the line that holds pixel px (i of the code, 0-based), as <<k, first pixel of run k>>
RunHolding(line, px) ==
    LET RECURSIVE Find(_, _)
        Find(k, first) == IF px < first + line[k][2] THEN <<k, first>>
                          ELSE Find(k + 1, first + line[k][2])
    IN  Find(1, 0)

\* line[i]
ValAt(line, px) == line[RunHolding(line, px)[1]][1]

\* the first index after px where the line's value changes, or the width
SameUntil(line, px) ==
    LET r == RunHolding(line, px) IN r[2] + line[r[1]][2]

\* a | b on bytes
RECURSIVE BitOr(_, _)
BitOr(a, b) ==
    IF a = 0 THEN b
    ELSE IF b = 0 THEN a
    ELSE 2 * BitOr(a \div 2, b \div 2) + (IF a % 2 = 1 \/ b % 2 = 1 THEN 1 ELSE 0)

\* run < 16383 ends the inner while loop
MaxRun == 16383

\* run <= 63 selects the short form
ShortRun == 63

\* the mutant of EncodeRun whose short form takes one more pixel (run <= 64)
EncodeRunShortOffByOne(val, run) ==
    IF val = 0
    THEN IF run <= ShortRun + 1 THEN <<0, run>>
         ELSE <<0, BitOr(64, run \div 256), run % 256>>
    ELSE IF run = 1 THEN <<val>>
         ELSE IF run <= ShortRun + 1 THEN <<0, BitOr(128, run), val>>
         ELSE <<0, BitOr(192, run \div 256), run % 256, val>>

\* the bytes appended for one run of `run` pixels of index val, lines 402-418
\* (0x40 = 64, 0x80 = 128, 0xC0 = 192; run >> 8 = run div 256, run & 0xFF = run mod 256)
EncodeRun(val, run) ==
    IF val = 0
    THEN IF run <= ShortRun THEN <<0, run>>
         ELSE <<0, BitOr(64, run \div 256), run % 256>>
    ELSE IF run = 1 THEN <<val>>
         ELSE IF run <= ShortRun THEN <<0, BitOr(128, run), val>>
         ELSE <<0, BitOr(192, run \div 256), run % 256, val>>

\* the while loop over one line from pixel px on, lines 396-419
RECURSIVE RleLine(_, _, _)
RleLine(line, width, px) ==
    IF px >= width THEN <<>>
    ELSE LET val == ValAt(line, px)
             \* run grows while i + run < width, line[i + run] = val, run < MaxRun
             run == Min(MaxRun, Min(width, SameUntil(line, px)) - px)
         IN  EncodeRun(val, run) \o RleLine(line, width, px + run)

\* _rle_compress(pixels, width, height): every line, then its end-of-line 00 00
RECURSIVE RleRows(_, _, _, _)
RleRows(pixels, width, height, row) ==
    IF row >= height THEN <<>>
    ELSE RleLine(pixels[row + 1], width, 0) \o <<0, 0>>
             \o RleRows(pixels, width, height, row + 1)

RleCompress(pixels, width, height) == RleRows(pixels, width, height, 0)

(***************************************************************************)
(* _rle_compress applied to one bitmap                                     *)
(***************************************************************************)
\* at most this many runs in a line
MaxRuns == 2

RunLens == {1, 2, 3, 63, 64, 255, 256, 16383, 16384, 32767}

PaletteIndices == {0, 1, 255}

\* the lines of up to MaxRuns runs
RECURSIVE LinesOf(_)
LinesOf(n) ==
    IF n = 1 THEN {<<<<v, l>>>> : v \in PaletteIndices, l \in RunLens}
    ELSE LinesOf(n - 1) \cup
         {Append(ln, <<v, l>>) : ln \in {x \in LinesOf(n - 1) : Len(x) = n - 1},
                                v \in PaletteIndices, l \in RunLens}

Lines == {ln \in LinesOf(MaxRuns) : \A k \in 1..(Len(ln) - 1) : ln[k][1] # ln[k + 1][1]}

\* bitmaps of one or two lines: a line alone, twice, or over a line of one colour
Bitmaps ==
    {[pixels |-> <<ln>>, width |-> LineWidth(ln), height |-> 1] : ln \in Lines}
    \cup {[pixels |-> <<ln, ln>>, width |-> LineWidth(ln), height |-> 2] : ln \in Lines}
    \cup {[pixels |-> <<ln, <<<<v, LineWidth(ln)>>>>>>, width |-> LineWidth(ln),
           height |-> 2] : ln \in Lines, v \in PaletteIndices}

RleInit == rle_in \in Bitmaps /\ rle_out = <<>>

RleIdle == rle_in = <<>> /\ rle_out = <<>>

RleApply ==
    /\ rle_in # <<>>
    /\ rle_out = <<>>
    /\ rle_out' = RleCompress(rle_in.pixels, rle_in.width, rle_in.height)
    /\ UNCHANGED <<rle_in, notRle>>

(***************************************************************************)
(* PgsEncoder._quantize_image                                              *)
(*                                                                         *)
(* A colour is <<r, g, b, a>>.  An RGBA bitmap is [rows, width, height]:   *)
(* rows is the sequence of its scanlines, each a sequence of runs          *)
(* <<colour, n>>; img.getdata() is the rows one after the other.           *)
(***************************************************************************)
Transparent == <<0, 0, 0, 0>>

\* list(img.getdata()), as runs
RECURSIVE FlatRuns(_, _)
FlatRuns(rows, k) == IF k > Len(rows) THEN <<>> ELSE rows[k] \o FlatRuns(rows, k + 1)

\* p & 0xF0 on every channel, line 164
PosterizeColour(c) ==
    <<16 * (c[1] \div 16), 16 * (c[2] \div 16), 16 * (c[3] \div 16), 16 * (c[4] \div 16)>>

PosterizeRows(rows) ==
    [y \in DOMAIN rows |->
        [k \in DOMAIN rows[y] |-> <<PosterizeColour(rows[y][k][1]), rows[y][k][2]>>]]

\* the distinct colours of a run list, in order of first appearance (by halves)
FirstSeen(runs) ==
    LET RECURSIVE Scan(_, _)
        Scan(lo, hi) ==
            IF lo > hi THEN <<>>
            ELSE IF lo = hi THEN <<runs[lo][1]>>
            ELSE LET a == Scan(lo, (lo + hi) \div 2)
                     b == Scan((lo + hi) \div 2 + 1, hi)
                     S == Range(a)
                 IN  a \o SelectSeq(b, LAMBDA c : c \notin S)
    IN  Scan(1, Len(runs))

\* the number of pixels of colour c
CountOf(runs, c) ==
    LET RECURSIVE Sum(_, _)
        Sum(lo, hi) ==
            IF lo > hi THEN 0
            ELSE IF lo = hi THEN (IF runs[lo][1] = c THEN runs[lo][2] ELSE 0)
            ELSE Sum(lo, (lo + hi) \div 2) + Sum((lo + hi) \div 2 + 1, hi)
    IN  Sum(1, Len(runs))

Reverse(s) == [k \in DOMAIN s |-> s[Len(s) + 1 - k]]

\* img.getcolors(maxcolors): the list of <<count, colour>>, or None (here <<>>,
\* which `not colors` takes the same way) when the bitmap has more than
\* maxcolors colours.  The order of the list is the order of getcolors' table,
\* which the caller does not control: order is "first" for the order of first
\* appearance, "last" for its reverse.
GetColors(rows, maxcolors, order) ==
    LET runs == FlatRuns(rows, 1)
        seen == FirstSeen(runs)
        list == [k \in DOMAIN seen |-> <<CountOf(runs, seen[k]), seen[k]>>]
    IN  IF Len(seen) > maxcolors THEN <<>>
        ELSE IF order = "first" THEN list ELSE Reverse(list)

\* the mutant of SortByCountDesc that leaves the list as getcolors gave it
SortByCountDescUnsorted(colors) == colors

\* colors.sort(key=lambda x: x[0], reverse=True): by count, largest first,
\* entries of equal count in the order they had
SortByCountDesc(colors) ==
    LET RECURSIVE Take(_)
        Take(S) ==
            IF S = {} THEN <<>>
            ELSE LET m == CHOOSE x \in S : \A y \in S : x >= y
                 IN  SelectSeq(colors, LAMBDA e : e[1] = m) \o Take(S \ {m})
    IN  Take({colors[k][1] : k \in DOMAIN colors})

\* raw_colors.remove((0,0,0,0)) when it is in the list
RemoveFirst(s, c) ==
    IF c \notin Range(s) THEN s
    ELSE LET p == SetMin({k \in DOMAIN s : s[k] = c})
         IN  SubSeq(s, 1, p - 1) \o SubSeq(s, p + 1, Len(s))

\* maxcolors of the first two getcolors calls, lines 158 and 165
MaxColors == 256

\* maxcolors of the third call, line 172
AllColors == 16777216

\* colors[:255], line 177
KeepTop == 255

\* palette_rgba[:256], line 193
PaletteSize == 256

\* the mutant of TrimPalette that does not trim
TrimPaletteKeepsAll(palette) == palette

\* palette_rgba[:256]
TrimPalette(palette) == SubSeq(palette, 1, Min(PaletteSize, Len(palette)))

\* int() of a positive sum of thousandths n / 1000 that the code forms in floats:
\* the floor, and where the exact sum is a whole number and some term was
\* rounded, the float sum may also fall just below it
IntOfSum(n, exact) ==
    IF n % 1000 = 0 /\ ~exact THEN {n \div 1000 - 1, n \div 1000} ELSE {n \div 1000}

\* BT.601, lines 207-217: the entry (y, cr, cb, a), each of y, cr, cb as the set
\* of values the conversion can give
YuvOf(c) ==
    LET r == c[1]
        g == c[2]
        b == c[3]
        exact == r = 0 /\ g = 0 /\ b = 0
        y  == IntOfSum(16000 + 257 * r + 504 * g + 98 * b, exact)
        cb == IntOfSum(128000 - 148 * r - 291 * g + 439 * b, exact)
        cr == IntOfSum(128000 + 439 * r - 368 * g - 71 * b, exact)
    IN  << {Max(16, Min(235, v)) : v \in y},
           {Max(16, Min(240, v)) : v \in cr},
           {Max(16, Min(240, v)) : v \in cb},
           c[4] >>

\* color_map.get(p, 0): the 0-based palette index of colour c, 0 when absent
ColorIndex(palette, c) ==
    IF c \in Range(palette) THEN SetMin({k \in DOMAIN palette : palette[k] = c}) - 1
    ELSE 0

\* one scanline of indexed_pixels (by halves)
IndexLine(palette, line) ==
    LET RECURSIVE Map(_, _)
        Map(lo, hi) ==
            IF lo > hi THEN <<>>
            ELSE IF lo = hi THEN << <<ColorIndex(palette, line[lo][1]), line[lo][2]>> >>
            ELSE JoinLines(Map(lo, (lo + hi) \div 2), Map((lo + hi) \div 2 + 1, hi))
    IN  Map(1, Len(line))

\* _quantize_image(img): [palette_rgba, palette_yuv, indexed_pixels] and the
\* strategy that gave the colour list (1 as is, 2 posterized, 3 truncated)
QuantizeImage(rows, order) ==
    LET c1   == GetColors(rows, MaxColors, order)
        img  == IF c1 = <<>> THEN PosterizeRows(rows) ELSE rows
        c2   == IF c1 = <<>> THEN GetColors(img, MaxColors, order) ELSE c1
        call == GetColors(img, AllColors, order)
        c3   == IF c2 # <<>> THEN c2
                ELSE IF call # <<>>
                THEN SubSeq(SortByCountDesc(call), 1, Min(KeepTop, Len(call)))
                ELSE <<>>
        raw_colors   == RemoveFirst([k \in DOMAIN c3 |-> c3[k][2]], Transparent)
        palette_rgba == TrimPalette(<<Transparent>> \o raw_colors)
    IN  [palette_rgba   |-> palette_rgba,
         palette_yuv    |-> [k \in DOMAIN palette_rgba |-> YuvOf(palette_rgba[k])],
         indexed_pixels |-> [y \in DOMAIN img |-> IndexLine(palette_rgba, img[y])],
         strategy       |-> IF c1 # <<>> THEN 1 ELSE IF c2 # <<>> THEN 2 ELSE 3]

(***************************************************************************)
(* _quantize_image applied to one bitmap                                   *)
(***************************************************************************)
\* colour k of a family: "near" colours differ in their low four bits and fall
\* together when posterized, "far" colours stay apart, "faint" colours have an
\* alpha below 16 that posterizing takes to 0, "twin" colours are the first 256
\* far colours and then colours one step of red beside them
FamilyColour(family, k) ==
    IF family = "near" THEN <<k % 16, k \div 16, 200, 255>>
    ELSE IF family = "far" THEN <<16 * (k % 16), 16 * ((k \div 16) % 16), 16 * (k \div 256), 240>>
    ELSE IF family = "twin"
    THEN <<16 * (k % 16) + (k \div 256), 16 * ((k \div 16) % 16), 0, 240>>
    ELSE <<k % 256, k \div 256, 7, 1 + (k % 15)>>

Families == {"near", "far", "faint", "twin"}

\* how many distinct colours of the family the bitmap has
ColourCounts == {1, 2, 3, 254, 255, 256, 257, 300}

\* how many pixels colour k has
PixelsOf(reps, k) == IF reps = "flat" THEN 1 ELSE 1 + (k % 3)

\* length of the fully transparent run in front of the colours (0: none)
TransparentRuns == {0, 1, 5}

\* a one-line bitmap: t transparent pixels, then colours 0 .. n-1 of the family
QuantBitmap(family, n, reps, t) ==
    LET line == (IF t = 0 THEN <<>> ELSE << <<Transparent, t>> >>)
                \o [k \in 1..n |-> <<FamilyColour(family, k - 1), PixelsOf(reps, k - 1)>>]
    IN  [rows |-> <<line>>, width |-> LineWidth(line), height |-> 1, order |-> "first"]

QuantBitmaps ==
    {[QuantBitmap(family, n, reps, t) EXCEPT !.order = order] :
        family \in Families, n \in ColourCounts, reps \in {"flat", "mod3"},
        t \in TransparentRuns, order \in {"first", "last"}}

QuantInit == q_in \in QuantBitmaps /\ q_out = <<>>

QuantIdle == q_in = <<>> /\ q_out = <<>>

QuantApply ==
    /\ q_in # <<>>
    /\ q_out = <<>>
    /\ q_out' = QuantizeImage(q_in.rows, q_in.order)
    /\ UNCHANGED <<q_in, notQuant>>

(***************************************************************************)
(* PgsEncoder: segments                                                    *)
(*                                                                         *)
(* A segment is the sequence of its bytes.  struct.pack raises struct.error *)
(* on a value outside the field; the bytes of such a segment are PackError. *)
(***************************************************************************)
PackError == <<-1>>

\* struct.pack('>B', v)
U8(v) == IF v >= 0 /\ v <= 255 THEN <<v>> ELSE PackError

\* struct.pack('>H', v)
U16(v) == IF v >= 0 /\ v <= 65535 THEN <<v \div 256, v % 256>> ELSE PackError

\* struct.pack('>I', v); the values of the model stay below 2^31
U32(v) ==
    IF v >= 0
    THEN <<v \div 16777216, (v \div 65536) % 256, (v \div 256) % 256, v % 256>>
    ELSE PackError

\* the parts one after the other (joined by halves), PackError when one of them is
Cat(parts) ==
    LET RECURSIVE Join(_, _)
        Join(lo, hi) == IF lo > hi THEN <<>>
                        ELSE IF lo = hi THEN parts[lo]
                        ELSE Join(lo, (lo + hi) \div 2) \o Join((lo + hi) \div 2 + 1, hi)
    IN  IF \E k \in DOMAIN parts : parts[k] = PackError THEN PackError
        ELSE Join(1, Len(parts))

\* segment types
TypePds == 20

TypeOds == 21

TypePcs == 22

TypeWds == 23

TypeEnd == 128

\* state=0x80 of both composition segments, lines 105 and 138
EpochStart == 128

\* the mutant of CreatePacket whose length field counts the 13 header bytes too
CreatePacketLengthWithHeader(pts, dts, segment_type, payload) ==
    Cat(<< <<80, 71>>, U32(pts), U32(dts), U8(segment_type),
           (IF payload = PackError THEN PackError ELSE U16(Len(payload) + 13)), payload >>)

\* _create_packet: b'PG', PTS, DTS, type, payload length, payload
CreatePacket(pts, dts, segment_type, payload) ==
    Cat(<< <<80, 71>>, U32(pts), U32(dts), U8(segment_type),
           (IF payload = PackError THEN PackError ELSE U16(Len(payload))), payload >>)

\* the frame-rate code of _create_pcs, fps in thousandths
FrameRateCode(fps) ==
    IF 23000 < fps /\ fps < 24000 THEN 1
    ELSE IF fps = 24000 THEN 2
    ELSE IF fps = 25000 THEN 3
    ELSE IF 29000 < fps /\ fps < 30000 THEN 4
    ELSE IF fps = 30000 THEN 5
    ELSE IF fps = 50000 THEN 6
    ELSE IF 59000 < fps /\ fps < 60000 THEN 7
    ELSE 0

\* _create_pcs (img_w and img_h are passed to it and not used)
CreatePcs(w, h, fps, pts, state, comp_num, pal_id, obj_id, win_id, img_x, img_y, palette_update) ==
    CreatePacket(pts, pts, TypePcs,
        Cat(<< U16(w), U16(h), U8(FrameRateCode(fps)),
               U16(comp_num), U8(state),
               U8(IF palette_update THEN 128 ELSE 0), U8(pal_id), U8(1),
               U16(obj_id), U8(win_id), U8(0),
               U16(img_x), U16(img_y) >>))

\* _create_pcs_clear: code is 0x01 whatever fps is; no palette, no object
CreatePcsClear(w, h, fps, pts, comp_num, state) ==
    CreatePacket(pts, pts, TypePcs,
        Cat(<< U16(w), U16(h), U8(1), U16(comp_num), U8(state), U8(0), U8(0), U8(0) >>))

CreateWds(pts, win_id, x, y, w, h) ==
    CreatePacket(pts, pts, TypeWds,
        Cat(<< U8(1), U8(win_id), U16(x), U16(y), U16(w), U16(h) >>))

\* _create_pds: entry k (0-based) as i, y, cr, cb, a
CreatePds(pts, pal_id, palette) ==
    CreatePacket(pts, pts, TypePds,
        Cat(<< U8(pal_id), U8(0) >>
            \o [k \in DOMAIN palette |->
                   Cat(<< U8(k - 1), U8(palette[k][1]), U8(palette[k][2]),
                          U8(palette[k][3]), U8(palette[k][4]) >>)]))

\* max_chunk, line 287
MaxChunk == 60000

\* _create_ods_packets: the while loop from offset on
RECURSIVE OdsFrom(_, _, _, _, _, _)
OdsFrom(pts, obj_id, w, h, rle_data, offset) ==
    LET total_size == Len(rle_data)
        chunk_len  == Min(MaxChunk, total_size - offset)
        chunk      == SubSeq(rle_data, offset + 1, offset + chunk_len)
        is_first   == offset = 0
        seq_flag   == BitOr(IF is_first THEN 128 ELSE 0,
                            IF offset + chunk_len >= total_size THEN 64 ELSE 0)
        full_obj_len == total_size + 4
        data == Cat(<< U16(obj_id), U8(0), U8(seq_flag),
                       (IF is_first
                        THEN Cat(<< U8((full_obj_len \div 65536) % 256),
                                    U16(full_obj_len % 65536), U16(w), U16(h) >>)
                        ELSE <<>>),
                       chunk >>)
    IN  IF offset >= total_size THEN <<>>
        ELSE <<CreatePacket(pts, pts, TypeOds, data)>>
                 \o OdsFrom(pts, obj_id, w, h, rle_data, offset + chunk_len)

\* the mutant of CreateOdsPackets that never splits
CreateOdsPacketsUnsplit(pts, obj_id, w, h, rle_data) ==
    <<CreatePacket(pts, pts, TypeOds,
          Cat(<< U16(obj_id), U8(0), U8(192),
                 U8(((Len(rle_data) + 4) \div 65536) % 256),
                 U16((Len(rle_data) + 4) % 65536), U16(w), U16(h), rle_data >>))>>

CreateOdsPackets(pts, obj_id, w, h, rle_data) == OdsFrom(pts, obj_id, w, h, rle_data, 0)

CreateEnd(pts) == CreatePacket(pts, pts, TypeEnd, <<>>)

(***************************************************************************)
(* PgsEncoder.export, called by PipelineWorker.run                         *)
(***************************************************************************)
\* _parse_bdn: the size named by the VideoFormat attribute ("none": no such
\* attribute, read as "1080p")
VideoSize(vid_fmt) ==
    IF vid_fmt = "720p" THEN <<1280, 720>>
    ELSE IF vid_fmt = "480p" THEN <<720, 480>>
    ELSE IF vid_fmt = "576p" THEN <<720, 576>>
    ELSE <<1920, 1080>>

\* _parse_bdn: (events, video_format), fps in thousandths
ParseBdn(doc) ==
    [events |-> [k \in DOMAIN doc.Events |->
                    [in_tc |-> doc.Events[k].InTC, out_tc |-> doc.Events[k].OutTC,
                     x |-> doc.Events[k].X, y |-> doc.Events[k].Y,
                     filename |-> doc.Events[k].Filename]],
     video_format |-> [fps |-> doc.FrameRate,
                       w |-> VideoSize(doc.VideoFormat)[1],
                       h |-> VideoSize(doc.VideoFormat)[2]]]

\* int(fps * 1000): the float product of a rate that is no multiple of 1/8 may
\* fall just below the whole number
IntTimes1000(fps) == IF fps % 125 = 0 THEN {fps} ELSE {fps - 1, fps}

\* the rates of three decimals that lie exactly one tolerance from a table rate
\* and for which the float comparison abs(fps - x) < tol is nevertheless true
RoundedInside == {23966, 29960, 59930, 49999, 50001, 59999, 60001}

\* the mutant of FpsPairsOf without the 59.94 row
FpsPairsOfNo5994(fps) ==
    LET Near(x, tol) ==
            \/ fps - x < tol /\ x - fps < tol
            \/ (fps - x = tol \/ x - fps = tol) /\ fps \in RoundedInside
    IN  IF fps <= 0 THEN {<<24000, 1001>>}
        ELSE IF Near(23976, 10) THEN {<<24000, 1001>>}
        ELSE IF Near(29970, 10) THEN {<<30000, 1001>>}
        ELSE IF Near(24000, 1) THEN {<<24, 1>>}
        ELSE IF Near(25000, 1) THEN {<<25, 1>>}
        ELSE IF Near(30000, 1) THEN {<<30, 1>>}
        ELSE IF Near(50000, 1) THEN {<<50, 1>>}
        ELSE IF Near(60000, 1) THEN {<<60, 1>>}
        ELSE {<<n, 1000>> : n \in IntTimes1000(fps)}

\* lines 35-59: the pairs (fps_num, fps_den) export can take for the rate
FpsPairsOf(fps) ==
    LET Near(x, tol) ==
            \/ fps - x < tol /\ x - fps < tol
            \/ (fps - x = tol \/ x - fps = tol) /\ fps \in RoundedInside
    IN  IF fps <= 0 THEN {<<24000, 1001>>}
        ELSE IF Near(23976, 10) THEN {<<24000, 1001>>}
        ELSE IF Near(29970, 10) THEN {<<30000, 1001>>}
        ELSE IF Near(59940, 10) THEN {<<60000, 1001>>}
        ELSE IF Near(24000, 1) THEN {<<24, 1>>}
        ELSE IF Near(25000, 1) THEN {<<25, 1>>}
        ELSE IF Near(30000, 1) THEN {<<30, 1>>}
        ELSE IF Near(50000, 1) THEN {<<50, 1>>}
        ELSE IF Near(60000, 1) THEN {<<60, 1>>}
        ELSE {<<n, 1000>> : n \in IntTimes1000(fps)}

\* the mutant of PadEven that leaves the bitmap as it is
PadEvenSkipped(img) == img

\* lines 78-83: the bitmap on a fully transparent canvas of even size
PadEven(img) ==
    LET new_w == img.width + (img.width % 2)
        new_h == img.height + (img.height % 2)
        wide  == [y \in DOMAIN img.rows |->
                     AddRun(img.rows[y], Transparent, new_w - img.width)]
    IN  IF img.width % 2 # 0 \/ img.height % 2 # 0
        THEN [rows   |-> IF new_h > img.height
                         THEN Append(wide, << <<Transparent, new_w>> >>) ELSE wide,
              width  |-> new_w,
              height |-> new_h]
        ELSE img

\* the palettes of numbers a palette of value sets stands for
RECURSIVE PaletteValues(_, _)
PaletteValues(palette_yuv, n) ==
    IF n = 0 THEN {<<>>}
    ELSE {Append(p, <<y, cr, cb, palette_yuv[n][4]>>) :
             p \in PaletteValues(palette_yuv, n - 1),
             y \in palette_yuv[n][1], cr \in palette_yuv[n][2], cb \in palette_yuv[n][3]}

\* the segments up to the first one whose packing raised
Written(packets) ==
    LET bad == {k \in DOMAIN packets : packets[k] = PackError}
    IN  IF bad = {} THEN packets ELSE SubSeq(packets, 1, SetMin(bad) - 1)

\* the writes of one event: each segment with the event it belongs to
WritesOf(ev, packets) == [k \in DOMAIN packets |-> [ev |-> ev, bytes |-> packets[k]]]

(***************************************************************************)
(* PgsEncoder.export as a state machine.  xpc is "start" before the worker *)
(* reaches line 137, "loop" at the top of an iteration, "show" and "clear" *)
(* before the event's two display sets are written, "done" after the loop, *)
(* "raised" when an exception left export, "cancelled" when the worker     *)
(* returned at line 137.                                                   *)
(***************************************************************************)
\* at most this many events in a document
MaxEvents == 2

DocRates == {<<24000, 1001>>, <<25, 1>>, <<120, 1>>}

\* the in time of a document's first event, and the lengths of its events, ms
DocStarts == {-500, 0, 1000}

DocDurations == {10, 500}

\* the timecode compose writes for time t at a target rate equal to the source rate
DocTc(t, rate) == SliceTc(t, <<rate[1], rate[2], rate[1], rate[2]>>, TRUE)

\* the event lists of n events back to back from time t on, named k, k+1, ...
RECURSIVE EventsFrom(_, _, _, _)
EventsFrom(t, n, rate, k) ==
    IF n = 0 THEN {<<>>}
    ELSE UNION {{<<[InTC |-> DocTc(t, rate), OutTC |-> DocTc(t + d, rate),
                    Width |-> 2, Height |-> 2, X |-> 16 * k, Y |-> 8,
                    Filename |-> k]>> \o rest :
                     rest \in EventsFrom(t + d, n - 1, rate, k + 1)} : d \in DocDurations}

\* the Format element: as _write_bdn_xml writes it (a Resolution attribute, no
\* VideoFormat attribute) for two target resolutions, and as another tool
\* writes it (VideoFormat, no Resolution)
DocFormats ==
    {[VideoFormat |-> "none", Resolution |-> <<1920, 1080>>],
     [VideoFormat |-> "none", Resolution |-> <<1280, 720>>],
     [VideoFormat |-> "720p", Resolution |-> <<>>]}

DocsAt(r) ==
    {[VideoFormat |-> fmt.VideoFormat, Resolution |-> fmt.Resolution,
      FrameRate |-> FpsThousandths(<<r[1], r[2], r[1], r[2]>>),
      Events |-> evs] :
        fmt \in DocFormats,
        evs \in UNION {EventsFrom(t, n, r, 1) : t \in DocStarts, n \in 0..MaxEvents}}

Docs == UNION {DocsAt(r) : r \in DocRates}

Red == <<255, 0, 0, 255>>

Blue == <<0, 0, 255, 128>>

\* the slice bitmaps: 2x2 with a transparent pixel, and 3x1 (odd on both sides)
SliceBitmaps ==
    {[rows |-> << << <<Red, 1>>, <<Transparent, 1>> >>, << <<Blue, 2>> >> >>,
      width |-> 2, height |-> 2],
     [rows |-> << << <<Red, 3>> >> >>, width |-> 3, height |-> 1]}

ExportInit ==
    /\ bdn_doc \in Docs
    /\ \E present \in SUBSET (DOMAIN bdn_doc.Events) :
           slice_dir \in [present -> SliceBitmaps]
    /\ cancel_requested = FALSE
    /\ cancelled_during = 0
    /\ xpc = "start"
    /\ events = <<>>
    /\ video_format = <<>>
    /\ fps_nd = <<0, 0>>
    /\ idx = 0
    /\ sequence_index = 0
    /\ cur = <<>>
    /\ out_file = <<>>

ExportIdle ==
    /\ bdn_doc = <<>>
    /\ slice_dir = <<>>
    /\ cancel_requested = FALSE
    /\ cancelled_during = 0
    /\ xpc = "idle"
    /\ events = <<>>
    /\ video_format = <<>>
    /\ fps_nd = <<0, 0>>
    /\ idx = 0
    /\ sequence_index = 0
    /\ cur = <<>>
    /\ out_file = <<>>

\* PipelineWorker.run lines 137-152 and export lines 24-62: the worker returns
\* if cancellation was requested; otherwise export resets the counter, parses
\* the document, fixes the rate and opens the output file
ExportStart ==
    /\ xpc = "start"
    /\ IF cancel_requested
       THEN /\ xpc' = "cancelled"
            /\ UNCHANGED <<events, video_format, fps_nd, idx, sequence_index, out_file>>
       ELSE LET parsed == ParseBdn(bdn_doc)
            IN  /\ xpc' = "loop"
                /\ sequence_index' = 0
                /\ events' = parsed.events
                /\ video_format' = parsed.video_format
                /\ fps_nd' \in FpsPairsOf(parsed.video_format.fps)
                /\ idx' = 1
                /\ out_file' = <<>>
    /\ UNCHANGED <<bdn_doc, slice_dir, cancel_requested, cancelled_during, cur, notExport>>

\* the mutant of ExportPrepare in which an event skipped for its missing bitmap
\* still takes the two composition numbers
ExportPrepareCountsSkipped ==
    /\ xpc = "loop"
    /\ idx <= Len(events)
    /\ LET ev        == events[idx]
           start_pts == TcToPts(ev.in_tc, fps_nd[1], fps_nd[2])
           end_pts   == TcToPts(ev.out_tc, fps_nd[1], fps_nd[2])
       IN  IF ev.filename \notin DOMAIN slice_dir
           THEN \* continue
                /\ idx' = idx + 1
                /\ sequence_index' = sequence_index + 2
                /\ UNCHANGED <<xpc, cur>>
           ELSE LET img == PadEven(slice_dir[ev.filename])
                    q   == QuantizeImage(img.rows, "first")
                IN  /\ \E pal \in PaletteValues(q.palette_yuv, Len(q.palette_yuv)) :
                           cur' = [start_pts |-> start_pts, end_pts |-> end_pts,
                                   x |-> ev.x, y |-> ev.y,
                                   width |-> img.width, height |-> img.height,
                                   img |-> img, palette_yuv |-> pal,
                                   rle_data |-> RleCompress(q.indexed_pixels,
                                                            img.width, img.height)]
                    /\ xpc' = "show"
                    /\ UNCHANGED <<idx, sequence_index>>
    /\ UNCHANGED <<bdn_doc, slice_dir, cancel_requested, cancelled_during, events,
                   video_format, fps_nd, out_file, notExport>>

\* lines 63-95: the top of one iteration up to the compressed bitmap
ExportPrepare ==
    /\ xpc = "loop"
    /\ idx <= Len(events)
    /\ LET ev        == events[idx]
           start_pts == TcToPts(ev.in_tc, fps_nd[1], fps_nd[2])
           end_pts   == TcToPts(ev.out_tc, fps_nd[1], fps_nd[2])
       IN  IF ev.filename \notin DOMAIN slice_dir
           THEN \* continue
                /\ idx' = idx + 1
                /\ UNCHANGED <<xpc, cur>>
           ELSE LET img == PadEven(slice_dir[ev.filename])
                    q   == QuantizeImage(img.rows, "first")
                IN  /\ \E pal \in PaletteValues(q.palette_yuv, Len(q.palette_yuv)) :
                           cur' = [start_pts |-> start_pts, end_pts |-> end_pts,
                                   x |-> ev.x, y |-> ev.y,
                                   width |-> img.width, height |-> img.height,
                                   img |-> img, palette_yuv |-> pal,
                                   rle_data |-> RleCompress(q.indexed_pixels,
                                                            img.width, img.height)]
                    /\ xpc' = "show"
                    /\ UNCHANGED idx
    /\ UNCHANGED <<bdn_doc, slice_dir, cancel_requested, cancelled_during, events,
                   video_format, fps_nd, sequence_index, out_file, notExport>>

\* lines 97-132: the SHOW display set, segment by segment; the object segments
\* are all built before the first of them is written
ExportShow ==
    /\ xpc = "show"
    /\ LET pcs == CreatePcs(video_format.w, video_format.h, video_format.fps,
                            cur.start_pts, EpochStart, sequence_index + 1,
                            0, 0, 0, cur.x, cur.y, FALSE)
           wds == CreateWds(cur.start_pts, 0, cur.x, cur.y, cur.width, cur.height)
           pds == CreatePds(cur.start_pts, 0, cur.palette_yuv)
           ods == CreateOdsPackets(cur.start_pts, 0, cur.width, cur.height, cur.rle_data)
           packets == <<pcs, wds, pds>>
                      \o (IF PackError \in Range(ods) THEN <<PackError>> ELSE ods)
                      \o <<CreateEnd(cur.start_pts)>>
       IN  /\ out_file' = out_file \o WritesOf(idx, Written(packets))
           /\ xpc' = IF PackError \in Range(packets) THEN "raised" ELSE "clear"
    /\ sequence_index' = sequence_index + 1
    /\ UNCHANGED <<bdn_doc, slice_dir, cancel_requested, cancelled_during, events,
                   video_format, fps_nd, idx, cur, notExport>>

\* lines 134-147: the CLEAR display set, then on to the next event
ExportClear ==
    /\ xpc = "clear"
    /\ LET pcs_clear == CreatePcsClear(video_format.w, video_format.h, video_format.fps,
                                       cur.end_pts, sequence_index + 1, EpochStart)
           wds_clear == CreateWds(cur.end_pts, 0, cur.x, cur.y, cur.width, cur.height)
           packets   == <<pcs_clear, wds_clear, CreateEnd(cur.end_pts)>>
       IN  /\ out_file' = out_file \o WritesOf(idx, Written(packets))
           /\ IF PackError \in Range(packets)
              THEN xpc' = "raised" /\ UNCHANGED idx
              ELSE xpc' = "loop" /\ idx' = idx + 1
    /\ sequence_index' = sequence_index + 1
    /\ cur' = <<>>
    /\ UNCHANGED <<bdn_doc, slice_dir, cancel_requested, cancelled_during, events,
                   video_format, fps_nd, notExport>>

\* the loop is over: the file is closed, export returns
ExportFinish ==
    /\ xpc = "loop"
    /\ idx > Len(events)
    /\ xpc' = "done"
    /\ UNCHANGED <<bdn_doc, slice_dir, cancel_requested, cancelled_during, events,
                   video_format, fps_nd, idx, sequence_index, cur, out_file, notExport>>

\* PipelineWorker.cancel, from the user interface thread, at any moment of the
\* run; cancelled_during records the event whose display sets were being
\* written at that moment (0: none)
ExportCancel ==
    /\ xpc \in {"start", "loop", "show", "clear"}
    /\ ~cancel_requested
    /\ cancel_requested' = TRUE
    /\ cancelled_during' = IF xpc \in {"show", "clear"} THEN idx ELSE 0
    /\ UNCHANGED <<bdn_doc, slice_dir, xpc, events, video_format, fps_nd, idx,
                   sequence_index, cur, out_file, notExport>>

ExportNext ==
    ExportStart \/ ExportPrepare \/ ExportShow \/ ExportClear \/ ExportFinish
    \/ ExportCancel

(***************************************************************************)
(* The segment builders applied to one set of arguments                    *)
(***************************************************************************)
\* the RLE payload of a given length: bytes that differ from place to place
RlePayload(size, pat) == [k \in 1..size |-> (k * pat) % 256]

\* a palette of num entries (y, cr, cb, a)
PaletteOf(num) == [k \in 1..num |-> <<(3 * k) % 256, 128, (5 * k) % 256, 255>>]

\* payload lengths around one, two and three times max_chunk
PayloadSizes == {1, 2, 59999, 60000, 60001, 119999, 120000, 120001, 180000}

PaletteSizes == {1, 2, 255, 256}

\* presentation times: the start, 41.75 seconds, six hours, and
\* the value a timecode before zero gives
SegTimes == {0, 3757500, 1944000000, -45045}

SegDims == {<<2, 2>>, <<1920, 1080>>}

SegInputs ==
    {[kind |-> k, pts |-> t, dim |-> dm, num |-> n, size |-> 0, pat |-> 0] :
        k \in {"pcs", "pcs_clear"}, t \in SegTimes, dm \in SegDims, n \in {1, 2, 65535}}
    \cup {[kind |-> k, pts |-> t, dim |-> dm, num |-> 0, size |-> 0, pat |-> 0] :
        k \in {"wds", "end"}, t \in SegTimes, dm \in SegDims}
    \cup {[kind |-> "pds", pts |-> t, dim |-> <<2, 2>>, num |-> n, size |-> 0, pat |-> 0] :
        t \in SegTimes, n \in PaletteSizes}
    \cup {[kind |-> "ods", pts |-> t, dim |-> <<1920, 1080>>, num |-> 0, size |-> z, pat |-> q] :
        t \in {0, 3757500}, z \in PayloadSizes, q \in {1, 7}}

SegInit ==
    /\ seg_in \in SegInputs
    /\ seg_out = <<>>

SegIdle == seg_in = <<>> /\ seg_out = <<>>

\* the call as export makes it (lines 102-147): ids 0, state 0x80, the video
\* size and rate of a 1080p document at 23.976, the bitmap at (100, 200)
SegBuild ==
    /\ seg_in # <<>>
    /\ seg_out = <<>>
    /\ seg_out' =
         CASE seg_in.kind = "pcs" ->
                <<CreatePcs(1920, 1080, 23976, seg_in.pts, EpochStart, seg_in.num,
                            0, 0, 0, 100, 200, FALSE)>>
           [] seg_in.kind = "pcs_clear" ->
                <<CreatePcsClear(1920, 1080, 23976, seg_in.pts, seg_in.num, EpochStart)>>
           [] seg_in.kind = "wds" ->
                <<CreateWds(seg_in.pts, 0, 100, 200, seg_in.dim[1], seg_in.dim[2])>>
           [] seg_in.kind = "pds" ->
                <<CreatePds(seg_in.pts, 0, PaletteOf(seg_in.num))>>
           [] seg_in.kind = "ods" ->
                CreateOdsPackets(seg_in.pts, 0, seg_in.dim[1], seg_in.dim[2],
                                 RlePayload(seg_in.size, seg_in.pat))
           [] seg_in.kind = "end" ->
                <<CreateEnd(seg_in.pts)>>
    /\ UNCHANGED <<seg_in, notSeg>>

(***************************************************************************)
(* The frame-rate classification of export applied to one FrameRate text   *)
(***************************************************************************)
\* the rate column of the table of lines 39-55, in thousandths, with the
\* tolerance and the pair of each row
RateTable ==
    {<<23976, 10, <<24000, 1001>>>>, <<29970, 10, <<30000, 1001>>>>,
     <<59940, 10, <<60000, 1001>>>>, <<24000, 1, <<24, 1>>>>, <<25000, 1, <<25, 1>>>>,
     <<30000, 1, <<30, 1>>>>, <<50000, 1, <<50, 1>>>>, <<60000, 1, <<60, 1>>>>}

\* how far around each table rate the FrameRate texts are tried
RateWindow == 12

\* FrameRate texts of three decimals, in thousandths: around every table rate,
\* and some far from all of them
RateTexts ==
    UNION {(row[1] - RateWindow)..(row[1] + RateWindow) : row \in RateTable}
    \cup {1, 124, 125, 1000, 12500, 23500, 48000, 59500, 100000, 120000}

\* fps_str of _write_bdn_xml for a target pair, as the document carries it
ComposerText(pair) == FpsThousandths(<<pair[1], pair[2], pair[1], pair[2]>>)

FpsInit ==
    /\ fps_in \in {[rate |-> f, target |-> <<>>] : f \in RateTexts}
                  \cup {[rate |-> ComposerText(pr), target |-> pr] : pr \in LegalRates}
    /\ fps_out = <<>>

FpsIdle == fps_in = <<>> /\ fps_out = <<>>

\* lines 33-59 of export
FpsClassify ==
    /\ fps_in # <<>>
    /\ fps_out = <<>>
    /\ fps_out' \in FpsPairsOf(fps_in.rate)
    /\ UNCHANGED <<fps_in, notFps>>

(***************************************************************************)
(* Specifications: one per component, the others at rest                   *)
(***************************************************************************)
InitCompose == ComposeInit /\ CropIdle /\ TcIdle /\ RleIdle /\ QuantIdle /\ ExportIdle
    /\ SegIdle /\ FpsIdle

SpecCompose == InitCompose /\ [][ComposeNext]_vars

InitCrop == CropInit /\ ComposeIdle /\ TcIdle /\ RleIdle /\ QuantIdle /\ ExportIdle
    /\ SegIdle /\ FpsIdle

SpecCrop == InitCrop /\ [][CropApply]_vars

InitTc == TcInit /\ ComposeIdle /\ CropIdle /\ RleIdle /\ QuantIdle /\ ExportIdle
    /\ SegIdle /\ FpsIdle

TcNext == TcFormat \/ TcParse

SpecTc == InitTc /\ [][TcNext]_vars

InitRle == RleInit /\ ComposeIdle /\ CropIdle /\ TcIdle /\ QuantIdle /\ ExportIdle
    /\ SegIdle /\ FpsIdle

SpecRle == InitRle /\ [][RleApply]_vars

InitQuant == QuantInit /\ ComposeIdle /\ CropIdle /\ TcIdle /\ RleIdle /\ ExportIdle
    /\ SegIdle /\ FpsIdle

SpecQuant == InitQuant /\ [][QuantApply]_vars

InitExport ==
    ExportInit /\ ComposeIdle /\ CropIdle /\ TcIdle /\ RleIdle /\ QuantIdle
    /\ SegIdle /\ FpsIdle

SpecExport == InitExport /\ [][ExportNext]_vars

InitSeg ==
    SegInit /\ ComposeIdle /\ CropIdle /\ TcIdle /\ RleIdle /\ QuantIdle /\ ExportIdle
    /\ FpsIdle

SpecSeg == InitSeg /\ [][SegBuild]_vars

InitFps ==
    FpsInit /\ ComposeIdle /\ CropIdle /\ TcIdle /\ RleIdle /\ QuantIdle /\ ExportIdle
    /\ SegIdle

SpecFps == InitFps /\ [][FpsClassify]_vars

(***************************************************************************)
(* Properties of the slicer                                                *)
(***************************************************************************)
\* t lies in the interval [start_ms, end_ms) of some cue, offset applied
InCue(t) ==
    \E k \in DOMAIN cues :
        cues[k].start_ms + timing_offset_ms <= t /\ t < cues[k].end_ms + timing_offset_ms

\* t lies in [t_start, t_end) of some slice with a non-empty active set
InSlice(t) ==
    \E k \in DOMAIN slices : slices[k].t_start <= t /\ t < slices[k].t_end

\* every time a cue or slice boundary can take in this run
BoundaryTimes ==
    {iv[1] + timing_offset_ms : iv \in CueIntervals}
    \cup {iv[2] + timing_offset_ms : iv \in CueIntervals}

\* C1: the intervals [t_start, t_end) of the slices with a non-empty active set
\* are pairwise non-overlapping, and once compose has run through, their union
\* is the union of the cue intervals [start_ms, end_ms), offset applied.  All
\* boundaries are integer times of BoundaryTimes, so two unions of such
\* intervals are equal exactly when they hold the same times of BoundaryTimes.
C1_SlicesPartitionCueUnion ==
    /\ \A a, b \in DOMAIN slices :
           a < b => slices[a].t_end <= slices[b].t_start
    /\ \A k \in DOMAIN slices :
           /\ slices[k].t_start < slices[k].t_end
           /\ {slices[k].t_start, slices[k].t_end} \subseteq BoundaryTimes
    /\ \A t \in BoundaryTimes : InSlice(t) => InCue(t)
    /\ cpc = "done" => \A t \in BoundaryTimes : InCue(t) => InSlice(t)

\* C1 witness: a finished run over two overlapping cues, cut into three slices
C1_Witness ==
    /\ cpc = "done"
    /\ Len(cues) = 2
    /\ Len(slices) = 3
    /\ \E t \in BoundaryTimes : ~InCue(t)

\* the indices of the cues whose interval holds the midpoint of (t0, t1)
CuesAtMid(t0, t1) ==
    {k \in DOMAIN cues :
        /\ 2 * (cues[k].start_ms + timing_offset_ms) <= t0 + t1
        /\ t0 + t1 < 2 * (cues[k].end_ms + timing_offset_ms)}

CueA == ManifestCue(1, <<0, 1000>>)

CueB == ManifestCue(2, <<500, 1500>>)

\* C2: the active list of every slice (t0, t1) holds exactly the cues c with
\* c.start_ms <= (t0+t1)/2 < c.end_ms (offset applied), each once; and cues
\* A=[0,1000), B=[500,1500) give [0,500)->{A}, [500,1000)->{A,B}, [1000,1500)->{B}.
C2_ActiveIsMidpointSet ==
    /\ \A k \in DOMAIN slices :
        LET sl == slices[k]
            at == CuesAtMid(sl.t_start, sl.t_end)
        IN  /\ Range(sl.active) = {cues[j] : j \in at}
            /\ Len(sl.active) = Cardinality(at)
    /\ (cpc = "done" /\ cues = <<CueA, CueB>> /\ timing_offset_ms = 0) =>
           slices = << [t_start |-> 0, t_end |-> 500, active |-> <<CueA>>],
                       [t_start |-> 500, t_end |-> 1000, active |-> <<CueA, CueB>>],
                       [t_start |-> 1000, t_end |-> 1500, active |-> <<CueB>>] >>

\* C2 witness: Scenario A has run through
C2_Witness ==
    /\ cpc = "done"
    /\ cues = <<CueA, CueB>>
    /\ timing_offset_ms = 0
    /\ Len(slices) = 3
    /\ Len(slices[2].active) = 2

\* the cues whose interval [start_ms, end_ms), offset applied, holds instant t
CuesAt(t) ==
    {cues[k] : k \in {j \in DOMAIN cues :
                        /\ cues[j].start_ms + timing_offset_ms <= t
                        /\ t < cues[j].end_ms + timing_offset_ms}}

\* the instants of [t0, t1) at which the set of cues could change or have just
\* changed: the first and last millisecond, every boundary and the millisecond
\* before it
InstantsOf(t0, t1) ==
    {t \in {t0, t1 - 1} \cup BoundaryTimes \cup {b - 1 : b \in BoundaryTimes} :
        t0 <= t /\ t < t1}

\* C22: at every instant of a slice the cues whose interval holds the instant are
\* the slice's active list; and when every cue has end_ms > start_ms, two slices
\* that meet at a boundary have different active sets
C22_SlicesMaximalConstant ==
    /\ \A k \in DOMAIN slices :
           \A t \in InstantsOf(slices[k].t_start, slices[k].t_end) :
               CuesAt(t) = Range(slices[k].active)
    /\ (\A j \in DOMAIN cues : cues[j].end_ms > cues[j].start_ms) =>
           \A a, b \in DOMAIN slices :
               slices[a].t_end = slices[b].t_start =>
                   Range(slices[a].active) # Range(slices[b].active)

\* C22 witness: a run over a long cue and a 10 ms cue inside it has ended with
\* three slices that meet at 1000 and 1010
C22_Witness ==
    /\ cpc = "done"
    /\ Len(slices) = 3
    /\ \A j \in DOMAIN cues : cues[j].end_ms > cues[j].start_ms
    /\ slices[1].t_end = slices[2].t_start
    /\ slices[2].t_end - slices[2].t_start = 10
    /\ slices[2].t_end = slices[3].t_start
    /\ Len(slices[2].active) = 2

\* C23: once the cancellation event is set, compose does not run to its end: no
\* slice bitmap is saved, no event is collected, the document is not written,
\* and the files already written stay
C23_CancelStopsCompose ==
    [][cancel_event =>
          /\ cpc' # "done"
          /\ slice_files' = slice_files
          /\ bdn_events' = bdn_events
          /\ bdn_xml' = bdn_xml]_vars

\* the manifest's cues in every list order
Reorderings(cs) ==
    {[k \in DOMAIN cs |-> cs[p[k]]] :
        p \in {q \in [DOMAIN cs -> DOMAIN cs] : \A a, b \in DOMAIN cs : q[a] = q[b] => a = b}}

\* C24: the cues of every slice are composited in ascending id order, and a run
\* on the same cues in any other list order composites the slice's cues in the
\* same order
C24_LayeringIndependentOfListOrder ==
    \A k \in DOMAIN slices :
        LET sl == slices[k]
        IN  /\ \A a, b \in DOMAIN sl.active : a < b => sl.active[a].id <= sl.active[b].id
            /\ \A other \in Reorderings(cues) :
                   SortById(ActiveCues(other, timing_offset_ms, sl.t_start, sl.t_end))
                       = sl.active

\* some cue of the list has a bitmap file with a pixel of non-zero alpha
Visible(active) ==
    \E a \in DOMAIN active :
        images[active[a].filename] # Missing /\ images[active[a].filename] # NoBox

\* C25: the k-th composited slice (numbered k by seq_num) has a slice bitmap and
\* one event exactly when its composite has a visible pixel; a slice without one
\* has neither, and the events of the others are there in slice order once
\* compose has run through
C25_EmptySliceSkipped ==
    /\ \A k \in DOMAIN slices :
           /\ Visible(slices[k].active) <=> SliceFilename(k) \in slice_files
           /\ Cardinality({e \in DOMAIN bdn_events : bdn_events[e].Filename = SliceFilename(k)})
                  = IF Visible(slices[k].active) THEN 1 ELSE 0
    /\ \A e \in DOMAIN bdn_events :
           /\ bdn_events[e].Filename \in {SliceFilename(k) : k \in DOMAIN slices}
           /\ bdn_events[e].Width > 0 /\ bdn_events[e].Height > 0
    /\ \A e, f \in DOMAIN bdn_events : e < f => bdn_events[e].Filename < bdn_events[f].Filename
    /\ cpc = "done" => bdn_xml[1].Events = bdn_events

\* C25 witness: a finished run of two slices, the first with a missing bitmap
\* only, the second visible: one event, for slice 2
C25_Witness ==
    /\ cpc = "done"
    /\ Len(slices) = 2
    /\ images[slices[1].active[1].filename] = Missing
    /\ Len(slices[1].active) = 1
    /\ Visible(slices[2].active)
    /\ slice_files = {SliceFilename(2)}
    /\ Len(bdn_xml[1].Events) = 1
    /\ bdn_xml[1].Events[1].Filename = SliceFilename(2)

\* the fields of a timecode are a non-negative hour, minutes and seconds below
\* 60 and frames below the nominal base, and its PTS at the target rate fits
\* the four bytes of the segment header
TcPackable(tc) ==
    LET flds == SplitColon(tc)
        pts  == TcToPts(tc, fps_pair[3], fps_pair[4])
    IN  /\ Len(flds) = 4
        /\ \A k \in 1..4 : IsIntText(flds[k])
        /\ IntOf(flds[1]) >= 0
        /\ IntOf(flds[2]) >= 0 /\ IntOf(flds[2]) < 60
        /\ IntOf(flds[3]) >= 0 /\ IntOf(flds[3]) < 60
        /\ IntOf(flds[4]) >= 0 /\ IntOf(flds[4]) < FpsBase(fps_pair[3], fps_pair[4])
        /\ pts >= 0
        /\ pts \div 65536 < 65536

\* C29: both timecodes of every event compose collects have fields in range and
\* a PTS that can be packed
C29_TimecodesPackable ==
    \A k \in DOMAIN bdn_events :
        TcPackable(bdn_events[k].InTC) /\ TcPackable(bdn_events[k].OutTC)

\* C30: a composer built without a target resolution never raises, composes
\* every slice on the project's native canvas and, when compose completes, has
\* written the document with the native resolution
C30_NativeResolutionCompletes ==
    target_resolution = NoResolution =>
        /\ cpc # "raised"
        /\ \A k \in DOMAIN bdn_events :
              /\ bdn_events[k].X + bdn_events[k].Width <= ProjectSize[1]
              /\ bdn_events[k].Y + bdn_events[k].Height <= ProjectSize[2]
        /\ cpc = "done" => bdn_xml[1].Resolution = ProjectSize

\* the frame count a timecode of four numeric fields stands for at the target rate
FramesOfTc(tc) ==
    LET flds == SplitColon(tc)
    IN  TcFrames(IntOf(flds[1]), IntOf(flds[2]), IntOf(flds[3]), IntOf(flds[4]),
                 FpsBase(fps_pair[3], fps_pair[4]))

\* C12: every event compose collects for the interchange document has an in
\* timecode strictly earlier than its out timecode, as frame counts
C12_InBeforeOut ==
    \A k \in DOMAIN bdn_events :
        FramesOfTc(bdn_events[k].InTC) < FramesOfTc(bdn_events[k].OutTC)

(***************************************************************************)
(* Properties of the crop box                                              *)
(***************************************************************************)
\* C3: the box (x, y, w, h) returned for a non-empty content box has even w and
\* even h and lies inside the canvas (the claim as stated, for every canvas size)
C3_EvenBoxInsideCanvas ==
    crop_out # <<>> =>
        /\ crop_out[3] % 2 = 0
        /\ crop_out[4] % 2 = 0
        /\ 0 <= crop_out[1]
        /\ 0 <= crop_out[2]
        /\ crop_out[1] + crop_out[3] <= crop_in.res[1]
        /\ crop_out[2] + crop_out[4] <= crop_in.res[2]

\* C14: each of the four corner pixels of the saved bitmap has non-zero alpha
C14_SavedCornersVisible ==
    crop_saved # <<>> => \A k \in 1..4 : crop_saved[k][4] # 0

(***************************************************************************)
(* Properties of the timecode conversion                                   *)
(***************************************************************************)
\* a <= b as Python compares strings: by the first differing character, a
\* proper prefix being smaller
RECURSIVE LexLeq(_, _)
LexLeq(a, b) ==
    IF a = <<>> THEN TRUE
    ELSE IF b = <<>> THEN FALSE
    ELSE IF a[1] # b[1] THEN a[1] < b[1]
    ELSE LexLeq(Tail(a), Tail(b))

\* four fields of exactly two decimal digits: HH:MM:SS:FF
IsHHMMSSFF(tc) ==
    /\ Len(tc) = 11
    /\ \A k \in {3, 6, 9} : tc[k] = ChColon
    /\ \A k \in {1, 2, 4, 5, 7, 8, 10, 11} : IsDigit(tc[k])

\* C5 as stated: for any frame-rate pair and any ms1 < ms2 the timecode of ms1
\* is lexicographically less than or equal to the timecode of ms2
C5_LexMonotonicAnyMs ==
    tc_out # <<>> => LexLeq(tc_out.tc1, tc_out.tc2)

\* C5 amended: for any frame-rate pair and any ms1 < ms2 whose timecodes both
\* consist of four two-digit fields (times from zero up to 100 hours of
\* timecode, nominal base at most 100), the timecode of ms1 is
\* lexicographically less than or equal to the timecode of ms2
C5_LexMonotonicTwoDigitFields ==
    (tc_out # <<>> /\ IsHHMMSSFF(tc_out.tc1) /\ IsHHMMSSFF(tc_out.tc2)) =>
        LexLeq(tc_out.tc1, tc_out.tc2)

\* C5 witness: two times on either side of a second's wrap, both formatted
C5_Witness ==
    /\ tc_out # <<>>
    /\ tc_in.fps = <<24, 1>>
    /\ tc_in.ms1 = 970
    /\ tc_in.ms2 = 1012
    /\ IsHHMMSSFF(tc_out.tc1) /\ IsHHMMSSFF(tc_out.tc2)
    /\ tc_out.tc1 # tc_out.tc2

\* C6: for ms >= 0 and each of the eight legal rates, the PTS of the timecode
\* of ms differs from ms * 90 by at most one frame duration, 90000 * den / num
\* ticks (compared after multiplying through by num)
C6_RoundTripWithinOneFrame ==
    (tc_out # <<>> /\ tc_out.pts1 # <<>> /\ tc_in.ms1 >= 0 /\ tc_in.fps \in LegalRates) =>
        LET diff == tc_out.pts1[1] - tc_in.ms1 * 90
            mag  == IF diff < 0 THEN 0 - diff ELSE diff
        IN  mag * tc_in.fps[1] <= 90000 * tc_in.fps[2]

\* C6 witness: a time past the first minute at 23.976, converted and parsed,
\* whose PTS is not the exact clock value
C6_Witness ==
    /\ tc_out # <<>>
    /\ tc_out.pts1 # <<>>
    /\ tc_in.fps = <<24000, 1001>>
    /\ tc_in.ms1 = 60000
    /\ tc_out.pts1[1] # tc_in.ms1 * 90

\* C20: for every frame count n >= 0 that _ms_to_tc wrote as the timecode, the
\* frame count _tc_to_pts reads from that timecode with the base
\* round(fps_num / fps_den) is n, and the PTS is floor(n * 90000 * fps_den /
\* fps_num): with k1/k2 the ratio in lowest terms and n = q * k2 + r, the PTS is
\* q * k1 + t where t * k2 <= r * k1 < (t + 1) * k2
C20_FrameCountRoundTrip ==
    (tc_out # <<>> /\ tc_out.pts1 # <<>>) =>
        LET base == FpsBase(tc_in.fps[1], tc_in.fps[2])
            flds == SplitColon(tc_out.tc1)
            k    == FracMul(90000, 1, tc_in.fps[2], tc_in.fps[1])
        IN  \A n \in TotalFrames(<<tc_in.ms1, 1, 1>>, tc_in.fps[1], tc_in.fps[2]) :
                (n >= 0 /\ FormatTc(TcFields(n, base)) = tc_out.tc1) =>
                    /\ Len(flds) = 4
                    /\ TcFrames(IntOf(flds[1]), IntOf(flds[2]), IntOf(flds[3]),
                                IntOf(flds[4]), base) = n
                    /\ LET t == tc_out.pts1[1] - (n \div k[2]) * k[1]
                       IN  /\ t * k[2] <= (n % k[2]) * k[1]
                           /\ (n % k[2]) * k[1] < (t + 1) * k[2]

\* C20 witness: one hour at 60000/1001, frame 215784, was written as 00:59:56:24
\* and read back
C20_Witness ==
    /\ tc_out # <<>>
    /\ tc_out.pts1 # <<>>
    /\ tc_in.fps = <<60000, 1001>>
    /\ tc_in.ms1 = 3600000
    /\ 215784 \in TotalFrames(<<tc_in.ms1, 1, 1>>, 60000, 1001)
    /\ LET flds == SplitColon(tc_out.tc1)
       IN  <<IntOf(flds[1]), IntOf(flds[2]), IntOf(flds[3]), IntOf(flds[4])>> = <<0, 59, 56, 24>>
    /\ tc_out.pts1[1] = 323999676

(***************************************************************************)
(* Properties of the run-length coding                                     *)
(***************************************************************************)
\* the format's run-length decoder, from byte p on: a non-zero byte is one pixel
\* of that index; 00 00 ends the line; 00 00LLLLLL is L pixels of index 0;
\* 00 01LLLLLL LLLLLLLL is L pixels of index 0; 00 10LLLLLL CC is L pixels of
\* index CC; 00 11LLLLLL LLLLLLLL CC is L pixels of index CC.  The result is
\* [ok, lines]: the decoded lines, ok when the stream ends right after an
\* end-of-line marker and no code is cut short.
RECURSIVE RleDecode(_, _, _, _)
RleDecode(bytes, p, line, lines) ==
    IF p > Len(bytes) THEN [ok |-> line = <<>>, lines |-> lines]
    ELSE IF bytes[p] # 0 THEN RleDecode(bytes, p + 1, AddRun(line, bytes[p], 1), lines)
    ELSE IF p + 1 > Len(bytes) THEN [ok |-> FALSE, lines |-> lines]
    ELSE LET c    == bytes[p + 1]
             kind == c \div 64
             low  == c % 64
         IN  IF c = 0 THEN RleDecode(bytes, p + 2, <<>>, Append(lines, line))
             ELSE IF kind = 0 THEN RleDecode(bytes, p + 2, AddRun(line, 0, low), lines)
             ELSE IF kind = 1 THEN
                 IF p + 2 > Len(bytes) THEN [ok |-> FALSE, lines |-> lines]
                 ELSE RleDecode(bytes, p + 3, AddRun(line, 0, low * 256 + bytes[p + 2]), lines)
             ELSE IF kind = 2 THEN
                 IF p + 2 > Len(bytes) THEN [ok |-> FALSE, lines |-> lines]
                 ELSE RleDecode(bytes, p + 3, AddRun(line, bytes[p + 2], low), lines)
             ELSE
                 IF p + 3 > Len(bytes) THEN [ok |-> FALSE, lines |-> lines]
                 ELSE RleDecode(bytes, p + 4,
                                AddRun(line, bytes[p + 3], low * 256 + bytes[p + 2]), lines)

\* C4: decoding the bytes of _rle_compress gives back the bitmap's indices line
\* by line, with exactly one end-of-line marker closing each of the height lines;
\* every byte is a byte
C4_RleRoundTrip ==
    rle_out # <<>> =>
        LET dec == RleDecode(rle_out, 1, <<>>, <<>>)
        IN  /\ \A k \in DOMAIN rle_out : rle_out[k] \in 0..255
            /\ dec.ok
            /\ Len(dec.lines) = rle_in.height
            /\ dec.lines = rle_in.pixels

\* C4 witness: a two-line bitmap whose first line has a run longer than the
\* longest codable one, so that the run is split, has been compressed
C4_Witness ==
    /\ rle_out # <<>>
    /\ rle_in.height = 2
    /\ \E k \in DOMAIN rle_in.pixels[1] :
           rle_in.pixels[1][k][2] > MaxRun /\ rle_in.pixels[1][k][1] # 0

(***************************************************************************)
(* Properties of the quantizer                                             *)
(***************************************************************************)
\* the palette indices that occur in the indexed bitmap
IndicesUsed(indexed) ==
    UNION {{indexed[y][k][1] : k \in DOMAIN indexed[y]} : y \in DOMAIN indexed}

\* C8: the palette _quantize_image returns has at most 256 entries, its entry 0
\* is the fully transparent colour, and every pixel of the bitmap has an index
\* that is strictly less than the palette length
C8_PaletteBoundedTransparentFirst ==
    q_out # <<>> =>
        /\ Len(q_out.palette_yuv) <= 256
        /\ Len(q_out.palette_yuv) = Len(q_out.palette_rgba)
        /\ q_out.palette_rgba[1] = Transparent
        /\ q_out.palette_yuv[1][4] = 0
        /\ Len(q_out.indexed_pixels) = q_in.height
        /\ \A y \in DOMAIN q_out.indexed_pixels :
               LineWidth(q_out.indexed_pixels[y]) = q_in.width
        /\ \A x \in IndicesUsed(q_out.indexed_pixels) :
               x >= 0 /\ x < Len(q_out.palette_yuv)

\* C8 witness: a bitmap of exactly 256 colours, none of them transparent, has
\* been quantized: the palette with transparent put in front had to be trimmed
C8_Witness ==
    /\ q_out # <<>>
    /\ Len(FirstSeen(FlatRuns(q_in.rows, 1))) = 256
    /\ Transparent \notin Range(FirstSeen(FlatRuns(q_in.rows, 1)))
    /\ q_out.strategy = 1
    /\ Len(q_out.palette_yuv) = 256
    /\ 255 \in IndicesUsed(q_out.indexed_pixels)

\* a line of runs with neighbouring runs of one value joined (by halves)
CanonLine(line) ==
    LET RECURSIVE Join(_, _)
        Join(lo, hi) == IF lo > hi THEN <<>>
                        ELSE IF lo = hi THEN <<line[lo]>>
                        ELSE JoinLines(Join(lo, (lo + hi) \div 2), Join((lo + hi) \div 2 + 1, hi))
    IN  Join(1, Len(line))

\* the colours a decoder shows for the indexed bitmap: every index replaced by
\* its palette entry
Painted(q) ==
    [y \in DOMAIN q.indexed_pixels |->
        CanonLine([k \in DOMAIN q.indexed_pixels[y] |->
                      <<q.palette_rgba[q.indexed_pixels[y][k][1] + 1],
                        q.indexed_pixels[y][k][2]>>])]

\* the bitmap itself, runs joined
ColoursOfRows(rows) == [y \in DOMAIN rows |-> CanonLine(rows[y])]

\* the bitmap with the colours outside keep made fully transparent
WithOnly(rows, keep) ==
    [y \in DOMAIN rows |->
        CanonLine([k \in DOMAIN rows[y] |->
                      <<IF rows[y][k][1] \in keep THEN rows[y][k][1] ELSE Transparent,
                        rows[y][k][2]>>])]

DistinctColours(rows) == Range(FirstSeen(FlatRuns(rows, 1)))

\* C13: a bitmap of more than 256 colours whose posterization has at most 256
\* is quantized by the posterize strategy, and every pixel's index names the
\* pixel's posterized colour: none is sent to index 0 for a dropped colour
C13_PosterizeTierKeepsEveryColour ==
    (/\ q_out # <<>>
     /\ Cardinality(DistinctColours(q_in.rows)) > 256
     /\ Cardinality(DistinctColours(PosterizeRows(q_in.rows))) <= 256)
    => /\ q_out.strategy = 2
       /\ Painted(q_out) = ColoursOfRows(PosterizeRows(q_in.rows))

\* C15: a bitmap of at most 256 colours is quantized as it is, and every pixel's
\* index names the pixel's own colour
C15_ExactUpTo256Colours ==
    (q_out # <<>> /\ Cardinality(DistinctColours(q_in.rows)) <= 256)
    => /\ q_out.strategy = 1
       /\ Painted(q_out) = ColoursOfRows(q_in.rows)

\* C16: in the frequency-truncation strategy the palette is transparent at index
\* 0 and the 255 colours of the posterized bitmap with the highest pixel counts
\* (no colour left out has more pixels than one taken), no colour is in the
\* palette twice, a pixel of a kept colour has that colour's index, and a pixel
\* of a dropped colour has index 0
C16_TruncationKeepsMostFrequent ==
    (q_out # <<>> /\ q_out.strategy = 3)
    => LET img   == PosterizeRows(q_in.rows)
           runs  == FlatRuns(img, 1)
           cols  == DistinctColours(img)
           cnt   == [c \in cols |-> CountOf(runs, c)]
           inpal == cols \cap Range(q_out.palette_rgba)
           taken == IF Cardinality(inpal) = 255 THEN inpal ELSE inpal \ {Transparent}
       IN  /\ q_out.palette_rgba[1] = Transparent
           /\ Range(q_out.palette_rgba) = taken \cup {Transparent}
           /\ Cardinality(taken) = 255
           /\ \A a \in {cnt[c] : c \in taken} : \A b \in {cnt[e] : e \in cols \ taken} : a >= b
           /\ Cardinality(Range(q_out.palette_rgba)) = Len(q_out.palette_rgba)
           /\ Painted(q_out) = WithOnly(img, taken \cup {Transparent})

\* C16 witness: a bitmap of 300 colours that stay apart when posterized, with
\* pixel counts from 1 to 3 and a single transparent pixel, has been quantized:
\* 45 colours were dropped
C16_Witness ==
    /\ q_out # <<>>
    /\ q_out.strategy = 3
    /\ Cardinality(DistinctColours(q_in.rows)) = 301
    /\ Len(q_out.palette_rgba) = 256
    /\ \E k \in DOMAIN q_in.rows[1] : q_in.rows[1][k][2] = 3
    /\ \E k \in DOMAIN q_in.rows[1] :
           /\ q_in.rows[1][k][1] # Transparent
           /\ PosterizeColour(q_in.rows[1][k][1]) \notin Range(q_out.palette_rgba)

(***************************************************************************)
(* Properties of export                                                    *)
(***************************************************************************)
\* the fields of a written segment
SegPts(b) == ((b[3] * 256 + b[4]) * 256 + b[5]) * 256 + b[6]

SegType(b) == b[11]

SegPayload(b) == SubSeq(b, 14, Len(b))

\* the segments written for event k, in file order
EventSegments(k) == SelectSeq(out_file, LAMBDA e : e.ev = k)

\* the segments of event k lie next to each other in the file
Contiguous(k) ==
    \A a, b, c \in DOMAIN out_file :
        (a < b /\ b < c /\ out_file[a].ev = k /\ out_file[c].ev = k) => out_file[b].ev = k

\* export has ended, by returning or by an exception
ExportEnded == xpc \in {"done", "raised"}

HasBitmap(k) == events[k].filename \in DOMAIN slice_dir

\* event k has exactly its SHOW set at the in-PTS (composition with state Epoch
\* Start, window, palette, one or more object segments, end) and then its CLEAR
\* set at the out-PTS (composition with zero objects, the same window, end)
ShowThenClear(k) ==
    LET segs    == EventSegments(k)
        n       == Len(segs)
        in_pts  == TcToPts(events[k].in_tc, fps_nd[1], fps_nd[2])
        out_pts == TcToPts(events[k].out_tc, fps_nd[1], fps_nd[2])
    IN  /\ n >= 8
        /\ SegType(segs[1].bytes) = TypePcs
        /\ SegPayload(segs[1].bytes)[8] = EpochStart
        /\ SegType(segs[2].bytes) = TypeWds
        /\ SegType(segs[3].bytes) = TypePds
        /\ \A j \in 4..(n - 4) : SegType(segs[j].bytes) = TypeOds
        /\ SegType(segs[n - 3].bytes) = TypeEnd
        /\ \A j \in 1..(n - 3) : SegPts(segs[j].bytes) = in_pts
        /\ SegType(segs[n - 2].bytes) = TypePcs
        /\ SegPayload(segs[n - 2].bytes)[11] = 0
        /\ SegType(segs[n - 1].bytes) = TypeWds
        /\ SegPayload(segs[n - 1].bytes) = SegPayload(segs[2].bytes)
        /\ SegType(segs[n].bytes) = TypeEnd
        /\ \A j \in (n - 2)..n : SegPts(segs[j].bytes) = out_pts

\* when export returns, every event with a bitmap has its two display sets,
\* unbroken by segments of another event
DoneHasShowThenClear ==
    xpc = "done" => \A k \in DOMAIN events : HasBitmap(k) => ShowThenClear(k) /\ Contiguous(k)

\* C7: once export has ended, every event whose bitmap exists has exactly a SHOW
\* set at its in-PTS followed by a CLEAR set at its out-PTS, with no segment of
\* another event in between
C7_EveryEventShowThenClear ==
    ExportEnded =>
        \A k \in DOMAIN events : HasBitmap(k) => ShowThenClear(k) /\ Contiguous(k)

\* C9: when the bitmap of some event is missing, export writes nothing for that
\* event and does not abort: it returns, and every event with a bitmap has its
\* SHOW and CLEAR sets, the events in document order
C9_MissingBitmapSkippedOnly ==
    (ExportEnded /\ \E k \in DOMAIN events : ~HasBitmap(k)) =>
        /\ xpc = "done"
        /\ \A k \in DOMAIN events : ~HasBitmap(k) => EventSegments(k) = <<>>
        /\ \A k \in DOMAIN events : HasBitmap(k) => ShowThenClear(k)
        /\ \A a, b \in DOMAIN out_file : a < b => out_file[a].ev <= out_file[b].ev

\* C10: when cancellation was requested while the display sets of event k were
\* being written, no segment of event k+1 or of a later event is ever written,
\* and event k's sets are complete when export returns
C10_CancelStopsAfterEvent ==
    cancelled_during >= 1 =>
        /\ \A j \in DOMAIN out_file : out_file[j].ev <= cancelled_during
        /\ xpc = "done" => ShowThenClear(cancelled_during)

\* the composition segments of the file, in file order
CompositionSegments == SelectSeq(out_file, LAMBDA e : SegType(e.bytes) = TypePcs)

\* the composition number a composition segment carries
CompNum(b) == SegPayload(b)[6] * 256 + SegPayload(b)[7]

\* the events that have segments in the file, in file order
EmittedEvents == SortedSeq({out_file[j].ev : j \in DOMAIN out_file})

\* C11: the composition numbers of the composition segments are 1, 2, 3, ... in
\* stream order, so strictly increasing; the k-th event that is written has
\* 2k-1 in its SHOW and 2k in its CLEAR composition segment, whatever the
\* number of events skipped before it
C11_CompositionNumbersCount ==
    LET pcs == CompositionSegments
    IN  /\ \A j \in DOMAIN pcs : CompNum(pcs[j].bytes) = j
        /\ \A j \in DOMAIN pcs : j > 1 => CompNum(pcs[j].bytes) > CompNum(pcs[j - 1].bytes)
        /\ \A k \in DOMAIN EmittedEvents :
               LET own == SelectSeq(pcs, LAMBDA e : e.ev = EmittedEvents[k])
               IN  /\ Len(own) >= 1 => /\ CompNum(own[1].bytes) = 2 * k - 1
                                       /\ SegPayload(own[1].bytes)[11] = 1
                   /\ Len(own) >= 2 => /\ CompNum(own[2].bytes) = 2 * k
                                       /\ SegPayload(own[2].bytes)[11] = 0
                   /\ Len(own) <= 2

\* C11 witness: export has returned from a document whose first event was
\* skipped for its missing bitmap and whose second event was written
C11_Witness ==
    /\ xpc = "done"
    /\ Len(events) = 2
    /\ ~HasBitmap(1)
    /\ HasBitmap(2)
    /\ Len(CompositionSegments) = 2
    /\ CompNum(CompositionSegments[2].bytes) = 2

\* the pixel at (x, y) of a bitmap held as lines of runs
PixelAt(img, x, y) == ValAt(img.rows[y + 1], x)

\* the size export gives a bitmap of size w x h
EvenUp(n) == IF n % 2 = 0 THEN n ELSE n + 1

\* C21: the bitmap export works on has the next even width and height; a pixel
\* inside the original bitmap is the original's pixel at that place and every
\* other pixel is fully transparent; the compressed bitmap has that many lines of
\* that many pixels, and the window and the object segments written for the
\* event carry the even width and height
C21_OddBitmapPadded ==
    /\ cur # <<>> =>
         LET o   == slice_dir[events[idx].filename]
             p   == cur.img
             dec == RleDecode(cur.rle_data, 1, <<>>, <<>>)
         IN  /\ p.width = EvenUp(o.width) /\ p.height = EvenUp(o.height)
             /\ Len(p.rows) = p.height
             /\ \A y \in 0..(p.height - 1) :
                    /\ LineWidth(p.rows[y + 1]) = p.width
                    /\ \A x \in 0..(p.width - 1) :
                           PixelAt(p, x, y) = IF x < o.width /\ y < o.height
                                              THEN PixelAt(o, x, y) ELSE Transparent
             /\ cur.width = p.width /\ cur.height = p.height
             /\ dec.ok
             /\ Len(dec.lines) = p.height
             /\ \A y \in DOMAIN dec.lines : LineWidth(dec.lines[y]) = p.width
    /\ \A j \in DOMAIN out_file :
           LET b  == out_file[j].bytes
               pl == SegPayload(b)
               o  == slice_dir[events[out_file[j].ev].filename]
           IN  /\ SegType(b) = TypeWds =>
                      /\ pl[7] * 256 + pl[8] = EvenUp(o.width)
                      /\ pl[9] * 256 + pl[10] = EvenUp(o.height)
               /\ (SegType(b) = TypeOds /\ pl[4] >= 128) =>
                      /\ pl[8] * 256 + pl[9] = EvenUp(o.width)
                      /\ pl[10] * 256 + pl[11] = EvenUp(o.height)

\* C21 witness: an event whose bitmap is 3 x 1 has been written whole, its window
\* being 4 x 2
C21_Witness ==
    /\ xpc = "done"
    /\ \E j \in DOMAIN out_file :
           /\ slice_dir[events[out_file[j].ev].filename].width = 3
           /\ SegType(out_file[j].bytes) = TypeWds
           /\ SubSeq(SegPayload(out_file[j].bytes), 7, 10) = <<0, 4, 0, 2>>

\* C26: in the stream as written so far no segment has a smaller PTS than a
\* segment before it; and the PTS export derives for the events of the document
\* are in order: in <= out for each event, out <= in of the next
C26_PtsNeverDecreases ==
    /\ \A j, k \in DOMAIN out_file :
           j < k => SegPts(out_file[j].bytes) <= SegPts(out_file[k].bytes)
    /\ xpc \notin {"start", "cancelled"} =>
           \A k \in DOMAIN events :
               LET in_pts  == TcToPts(events[k].in_tc, fps_nd[1], fps_nd[2])
                   out_pts == TcToPts(events[k].out_tc, fps_nd[1], fps_nd[2])
               IN  /\ in_pts <= out_pts
                   /\ k + 1 \in DOMAIN events =>
                          out_pts <= TcToPts(events[k + 1].in_tc, fps_nd[1], fps_nd[2])

\* C26 witness: a stream of two events written whole, the first of which lasts
\* less than a frame and has its SHOW and CLEAR sets at the same PTS, the second
\* later
C26_Witness ==
    /\ xpc = "done"
    /\ Len(events) = 2
    /\ Len(EventSegments(1)) >= 8 /\ Len(EventSegments(2)) >= 8
    /\ SegPts(EventSegments(1)[1].bytes) = SegPts(EventSegments(1)[Len(EventSegments(1))].bytes)
    /\ SegPts(EventSegments(1)[1].bytes) > 0
    /\ SegPts(EventSegments(2)[1].bytes) < SegPts(EventSegments(2)[Len(EventSegments(2))].bytes)

\* C27: every composition segment written for a document of the composer
\* carries the width and height of the document's Resolution, and the window of
\* every window segment lies inside them
C27_VideoSizeIsDocumentResolution ==
    bdn_doc # <<>> /\ bdn_doc.Resolution # <<>> =>
        \A j \in DOMAIN out_file :
            LET b  == out_file[j].bytes
                pl == SegPayload(b)
            IN  /\ SegType(b) = TypePcs =>
                       /\ pl[1] * 256 + pl[2] = bdn_doc.Resolution[1]
                       /\ pl[3] * 256 + pl[4] = bdn_doc.Resolution[2]
                /\ SegType(b) = TypeWds =>
                       /\ (pl[3] * 256 + pl[4]) + (pl[7] * 256 + pl[8]) <= bdn_doc.Resolution[1]
                       /\ (pl[5] * 256 + pl[6]) + (pl[9] * 256 + pl[10]) <= bdn_doc.Resolution[2]

\* the composition segments written for event k
EventCompositions(k) ==
    SelectSeq(out_file, LAMBDA e : e.ev = k /\ SegType(e.bytes) = TypePcs)

\* the frame-rate code of a composition segment
RateCode(b) == SegPayload(b)[5]

\* C28: the composition segments of an event all carry the same frame-rate code,
\* and for a rate export classified as one of the eight legal rates the code is
\* that rate's: 1 to 7 for 23.976, 24, 25, 29.97, 30, 50 and 59.94, and for 60 a
\* code that is neither one of these nor the code 0 of an unknown rate
C28_RateCodeSameAndRight ==
    \A k \in DOMAIN events :
        LET pcs == EventCompositions(k)
        IN  /\ \A a, b \in DOMAIN pcs : RateCode(pcs[a].bytes) = RateCode(pcs[b].bytes)
            /\ \A a \in DOMAIN pcs :
                   LET code == RateCode(pcs[a].bytes)
                   IN  CASE fps_nd = <<24000, 1001>> -> code = 1
                         [] fps_nd = <<24, 1>>       -> code = 2
                         [] fps_nd = <<25, 1>>       -> code = 3
                         [] fps_nd = <<30000, 1001>> -> code = 4
                         [] fps_nd = <<30, 1>>       -> code = 5
                         [] fps_nd = <<50, 1>>       -> code = 6
                         [] fps_nd = <<60000, 1001>> -> code = 7
                         [] fps_nd = <<60, 1>>       -> code \notin 0..7
                         [] OTHER                    -> TRUE

(***************************************************************************)
(* Properties of the segment builders                                      *)
(***************************************************************************)
\* the data chunk of fragment j: what follows the 4 bytes of id, version and
\* flag, and in the first fragment also the 7 bytes of length and size
OdsChunk(frs, j) ==
    LET pl == SegPayload(frs[j])
    IN  SubSeq(pl, (IF j = 1 THEN 12 ELSE 5), Len(pl))

OdsFirstFlag(frs, j) == SegPayload(frs[j])[4] \div 128 = 1

OdsLastFlag(frs, j) == (SegPayload(frs[j])[4] \div 64) % 2 = 1

\* C17: the fragments of a non-empty payload have chunks of at most max_chunk
\* bytes that concatenate in order to the payload; the first fragment alone has
\* the first flag, the 3-byte length payload + 4 and the width and height; the
\* last fragment alone has the last flag; the other bits of the flag are 0, so a
\* middle fragment has flag 0 and nothing but the chunk after it
C17_OdsFragments ==
    (seg_out # <<>> /\ seg_in.kind = "ods")
    => LET frs  == seg_out
           data == RlePayload(seg_in.size, seg_in.pat)
       IN  /\ \A j \in DOMAIN frs : frs[j] # PackError
           /\ \A j \in DOMAIN frs :
                  /\ Len(OdsChunk(frs, j)) >= 1
                  /\ Len(OdsChunk(frs, j)) <= 60000
                  /\ SegType(frs[j]) = 21
                  /\ SubSeq(SegPayload(frs[j]), 1, 3) = <<0, 0, 0>>
                  /\ SegPayload(frs[j])[4] \in {0, 64, 128, 192}
                  /\ OdsFirstFlag(frs, j) <=> j = 1
                  /\ OdsLastFlag(frs, j) <=> j = Len(frs)
           /\ Cat([j \in DOMAIN frs |-> OdsChunk(frs, j)]) = data
           /\ LET pl == SegPayload(frs[1])
              IN  /\ (pl[5] * 256 + pl[6]) * 256 + pl[7] = Len(data) + 4
                  /\ pl[8] * 256 + pl[9] = seg_in.dim[1]
                  /\ pl[10] * 256 + pl[11] = seg_in.dim[2]

\* C17 witness: a payload of 120001 bytes was split into a first, a middle and
\* a last fragment
C17_Witness ==
    /\ seg_out # <<>>
    /\ seg_in.kind = "ods"
    /\ seg_in.size = 120001
    /\ Len(seg_out) = 3
    /\ SegPayload(seg_out[2])[4] = 0
    /\ Len(SegPayload(seg_out[3])) = 5

\* the arguments are inside their fields apart from the payload length
SegArgsPackable == seg_in.pts >= 0

\* C18: every segment built is 'PG', PTS, DTS = PTS, type, 2-byte length and
\* payload, the length being the payload's byte count; with a presentation time
\* that can be packed, every kind of segment is built: no payload is longer
\* than 65535 bytes.  Nothing is built only when the time cannot be packed.
C18_SegmentFraming ==
    seg_out # <<>>
    => \A j \in DOMAIN seg_out :
           LET b == seg_out[j]
           IN  /\ b = PackError <=> ~SegArgsPackable
               /\ b # PackError =>
                    /\ Len(b) >= 13
                    /\ \A k \in DOMAIN b : b[k] \in 0..255
                    /\ SubSeq(b, 1, 2) = <<80, 71>>
                    /\ SegPts(b) = seg_in.pts
                    /\ SubSeq(b, 7, 10) = SubSeq(b, 3, 6)
                    /\ SegType(b) = (CASE seg_in.kind \in {"pcs", "pcs_clear"} -> 22
                                       [] seg_in.kind = "wds" -> 23
                                       [] seg_in.kind = "pds" -> 20
                                       [] seg_in.kind = "ods" -> 21
                                       [] seg_in.kind = "end" -> 128)
                    /\ b[12] * 256 + b[13] = Len(b) - 13
                    /\ Len(b) - 13 <= 65535

\* C18 witness: a palette segment of 256 entries (1282 bytes of payload) and the
\* first fragment of a split object (60011 bytes) have been built
C18_Witness ==
    /\ seg_out # <<>>
    /\ seg_out[1] # PackError
    /\ \/ seg_in.kind = "pds" /\ seg_in.num = 256 /\ Len(SegPayload(seg_out[1])) = 1282
       \/ seg_in.kind = "ods" /\ seg_in.size > 60000 /\ Len(SegPayload(seg_out[1])) = 60011

(***************************************************************************)
(* Properties of the frame-rate classification                             *)
(***************************************************************************)
\* C19: a rate less than the tolerance away from a table rate gets that row's
\* pair; a rate more than the tolerance away from every table rate gets
\* (int(fps * 1000), 1000), the rate in thousandths or one less; the rate the
\* composer writes for a legal target pair gets that pair back
C19_RateClassification ==
    fps_out # <<>>
    => LET f      == fps_in.rate
           Dist(x) == IF f >= x THEN f - x ELSE x - f
       IN  /\ \A row \in RateTable : Dist(row[1]) < row[2] => fps_out = row[3]
           /\ (\A row \in RateTable : Dist(row[1]) > row[2])
                  => fps_out[2] = 1000 /\ fps_out[1] \in {f - 1, f}
           /\ fps_in.target # <<>> => fps_out = fps_in.target

\* C19 witness: the three kinds of case were classified: 59.94 as the composer
\* writes it for 60000/1001, a rate inside a window that is not the table rate,
\* and a rate outside every window
C19_Witness ==
    /\ fps_out # <<>>
    /\ \/ fps_in.target = <<60000, 1001>> /\ fps_in.rate = 59940
       \/ fps_in.rate = 23980 /\ fps_out = <<24000, 1001>>
       \/ fps_in.rate = 24005 /\ fps_out = <<24005, 1000>>

Init == InitCompose

Next == ComposeNext

Spec == Init /\ [][Next]_vars

====
